---- MODULE Spec2Model ----
(***************************************************************************)
(* Model of the log viewer's LogProvider (src/unnamed/part_001, the latest *)
(* revision; src/src/logProvider.ts agrees on the functions modelled       *)
(* here): combineLogs, parseCombined, filterMessages, generateCombinedLog  *)
(* and applyFilters.                                                       *)
(*                                                                         *)
(* Text is modelled as it is in the program: a string is a sequence of     *)
(* characters (one-character TLA+ strings), lines are obtained by          *)
(* splitting on /\r?\n/, and the regular expressions of the source are     *)
(* operators over these sequences.                                         *)
(***************************************************************************)
EXTENDS Integers, Sequences, FiniteSets, TLC

\* ------------------------------------------------------------------------
\* Bounds of the model
\* ------------------------------------------------------------------------
MaxLines == 3
MaxViewLines == 2
MaxInflight == 2
MaxPrompts == 2

\* ------------------------------------------------------------------------
\* Characters and elementary string functions (JavaScript String/RegExp)
\* ------------------------------------------------------------------------
LF == "\n"
CR == "\r"
\* null, and a file that does not exist: no string of the program equals them
None == <<"null">>
NoFile == <<"ENOENT">>

Digits == {"0", "1", "2", "3", "4", "5", "6", "7", "8", "9"}

\* \s of a JavaScript regular expression, over the characters of the model
IsSpace(c) == c \in {" ", "\t", "\n", "\r"}

\* '.' of a JavaScript regular expression: anything but a line terminator
IsDot(c) == c \notin {"\n", "\r"}

IsQuote(c) == c \in {"'", "\""}

Min(S) == CHOOSE x \in S : \A y \in S : x <= y
Max(S) == CHOOSE x \in S : \A y \in S : x >= y

StartsWith(s, p) == Len(s) >= Len(p) /\ SubSeq(s, 1, Len(p)) = p

\* s.slice(k) with a 0-based k
SliceFrom(s, k) == SubSeq(s, k + 1, Len(s))

\* s.replace(/^\s+/, '') and s.trimStart()
TrimStart(s) ==
  LET ns == {i \in 1..Len(s) : ~IsSpace(s[i])}
  IN  IF ns = {} THEN <<>> ELSE SubSeq(s, Min(ns), Len(s))

\* s.trim()
Trim(s) ==
  LET ns == {i \in 1..Len(s) : ~IsSpace(s[i])}
  IN  IF ns = {} THEN <<>> ELSE SubSeq(s, Min(ns), Max(ns))

\* s.indexOf(c) for a character c: 0-based, -1 when absent
IndexOfChar(s, c) ==
  LET ps == {i \in 1..Len(s) : s[i] = c}
  IN  IF ps = {} THEN -1 ELSE Min(ps) - 1

\* s.indexOf(t) >= 0 for a string t (the empty string is found everywhere)
Contains(s, t) ==
  \E i \in 0..(Len(s) - Len(t)) : SubSeq(s, i + 1, i + Len(t)) = t

\* String.prototype.toLowerCase over the letters the model uses
LowerChar(c) ==
  CASE c = "A" -> "a" [] c = "B" -> "b" [] c = "E" -> "e" [] c = "R" -> "r"
    [] c = "X" -> "x" [] c = "T" -> "t" [] c = "P" -> "p" [] c = "S" -> "s"
    [] c = "D" -> "d" [] c = "I" -> "i" [] c = "W" -> "w" [] c = "F" -> "f"
    [] c = "N" -> "n" [] c = "G" -> "g" [] c = "M" -> "m" [] c = "C" -> "c"
    [] c = "Q" -> "q" [] c = "H" -> "h" [] c = "L" -> "l" [] c = "O" -> "o"
    [] OTHER -> c

ToLowerCase(s) == [i \in 1..Len(s) |-> LowerChar(s[i])]

\* content.split(/\r?\n/)
RECURSIVE SplitFrom(_, _)
SplitFrom(s, start) ==
  LET lfs == {i \in start..Len(s) : s[i] = LF}
  IN  IF lfs = {} THEN <<SubSeq(s, start, Len(s))>>
      ELSE LET nl == Min(lfs)
               end == IF nl > start /\ s[nl - 1] = CR THEN nl - 2 ELSE nl - 1
           IN  <<SubSeq(s, start, end)>> \o SplitFrom(s, nl + 1)

SplitLines(s) == SplitFrom(s, 1)

\* parts.join(sep)
RECURSIVE Join(_, _)
Join(parts, sep) ==
  IF parts = <<>> THEN <<>>
  ELSE IF Len(parts) = 1 THEN parts[1]
  ELSE parts[1] \o sep \o Join(Tail(parts), sep)

\* ------------------------------------------------------------------------
\* The literals and regular expressions of the source
\* ------------------------------------------------------------------------
Rep(c, n) == [i \in 1..n |-> c]

\* /^================== APP STARTED =================/
BannerText ==
  Rep("=", 18) \o <<" ", "A", "P", "P", " ", "S", "T", "A", "R", "T", "E", "D", " ">>
               \o Rep("=", 17)

startRegex(line) == StartsWith(line, BannerText)

BeginPartText == <<"=", "=", "=", "=", "=", " ", "B", "E", "G", "I", "N", " ", "P", "A", "R", "T", ":">>
EndPartText == <<"=", "=", "=", "=", "=", " ", "E", "N", "D", " ", "P", "A", "R", "T", ":">>

\* /^===== (BEGIN|END) PART:/
partRegex(line) == StartsWith(line, BeginPartText) \/ StartsWith(line, EndPartText)

\* /^\[(\d{2}-\d{2} \d{2}:\d{2}:\d{2}\.\d{3})\]\[(.)\]/
headPrefixRegex(line) ==
  /\ Len(line) >= 23
  /\ line[1] = "["
  /\ \A i \in {2, 3, 5, 6, 8, 9, 11, 12, 14, 15, 17, 18, 19} : line[i] \in Digits
  /\ line[4] = "-" /\ line[7] = " " /\ line[10] = ":" /\ line[13] = ":"
  /\ line[16] = "."
  /\ line[20] = "]" /\ line[21] = "[" /\ IsDot(line[22]) /\ line[23] = "]"

\* m[1], m[2] and m[0].length of a header match
HeadTimestamp(line) == SubSeq(line, 2, 19)
HeadLevel(line) == line[22]
HeadLength == 23

\* The sentinel of messages without channels, '(bez kanala)' in cyrillic in the
\* source: an opening parenthesis, two lower-case words separated by one space,
\* a closing parenthesis (transliterated, the module being ASCII)
NO_CHANNEL == <<"(", "b", "e", "z", " ", "k", "a", "n", "a", "l", "a", ")">>

\* /^\(WorkingQueue:(\d+)\)/ : the length of the match, 0 when there is none
WorkingQueueText == <<"(", "W", "o", "r", "k", "i", "n", "g", "Q", "u", "e", "u", "e", ":">>

WorkingQueueMatchLen(rest) ==
  IF ~StartsWith(rest, WorkingQueueText) THEN 0
  ELSE LET from == Len(WorkingQueueText) + 1
           nd == {i \in from..Len(rest) : rest[i] \notin Digits}
           stop == IF nd = {} THEN Len(rest) + 1 ELSE Min(nd)
       IN  IF stop > from /\ stop <= Len(rest) /\ rest[stop] = ")" THEN stop ELSE 0

BuildVersionText == <<"B", "u", "i", "l", "d", " ", "v", "e", "r", "s", "i", "o", "n", ":">>

\* line.match(/Build version:\s*(.+)/): the capture group of the leftmost match,
\* None when the line does not match. \s* is greedy and gives characters back
\* until (.+) has one character that is not a line terminator.
BuildCaptureAt(line, p) ==
  LET after == SliceFrom(line, p + Len(BuildVersionText) - 1)
      nsp == {i \in 1..Len(after) : ~IsSpace(after[i])}
      w == IF nsp = {} THEN Len(after) ELSE Min(nsp) - 1
      ks == {k \in 1..(w + 1) : k <= Len(after) /\ IsDot(after[k])}
  IN  IF ks = {} THEN None
      ELSE LET k == Max(ks)
               nd == {i \in k..Len(after) : ~IsDot(after[i])}
               e == IF nd = {} THEN Len(after) ELSE Min(nd) - 1
           IN  SubSeq(after, k, e)

BuildMatch(line) ==
  LET ps == {p \in 1..(Len(line) - Len(BuildVersionText) + 1) :
               /\ SubSeq(line, p, p + Len(BuildVersionText) - 1) = BuildVersionText
               /\ BuildCaptureAt(line, p) # None}
  IN  IF ps = {} THEN None ELSE BuildCaptureAt(line, Min(ps))

\* ------------------------------------------------------------------------
\* parseCombined
\* ------------------------------------------------------------------------

\* mutant: the scan does not stop at the next banner
RECURSIVE FindBuildVersionAcross(_, _)
FindBuildVersionAcross(lines, j) ==
  IF j > Len(lines) THEN None
  ELSE IF BuildMatch(lines[j]) # None THEN Trim(BuildMatch(lines[j]))
  ELSE FindBuildVersionAcross(lines, j + 1)

\* the inner loop of a banner line: the build version of the session, looked
\* for in lines[j..] up to the next banner (j is 1-based here)
RECURSIVE FindBuildVersion(_, _)
FindBuildVersion(lines, j) ==
  IF j > Len(lines) THEN None
  ELSE IF startRegex(lines[j]) THEN None
  ELSE IF BuildMatch(lines[j]) # None THEN Trim(BuildMatch(lines[j]))
  ELSE FindBuildVersion(lines, j + 1)

\* mutant: the test of the token for whitespace and quotes is left out
RECURSIVE ParseChannelsUnchecked(_, _)
ParseChannelsUnchecked(rest0, channels) ==
  LET rest == TrimStart(rest0)
      end == IndexOfChar(rest, "]")
      ch == SubSeq(rest, 2, end)
  IN  IF ~StartsWith(rest, <<"[">>) THEN [channels |-> channels, rest |-> rest]
      ELSE IF end <= 1 THEN [channels |-> channels, rest |-> rest]
      ELSE ParseChannelsUnchecked(SliceFrom(rest, end + 1), Append(channels, ch))

\* the channel loop of a header line: [channels, rest] when the loop breaks
RECURSIVE ParseChannels(_, _)
ParseChannels(rest0, channels) ==
  LET rest == TrimStart(rest0)
      end == IndexOfChar(rest, "]")
      ch == SubSeq(rest, 2, end)
  IN  IF ~StartsWith(rest, <<"[">>) THEN [channels |-> channels, rest |-> rest]
      ELSE IF end <= 1 THEN [channels |-> channels, rest |-> rest]
      ELSE IF \E i \in 1..Len(ch) : IsSpace(ch[i]) \/ IsQuote(ch[i])
           THEN [channels |-> channels, rest |-> rest]
      ELSE ParseChannels(SliceFrom(rest, end + 1), Append(channels, ch))

GT == <<">">>

\* channels.slice(0, k).join('>')
PrefixPath(channels, k) == Join(SubSeq(channels, 1, k), GT)

\* msg.channels.join('>')
PathStr(channels) == Join(channels, GT)

\* channelsTree.get(path).add(child), creating the set when the key is new
AddChild(tree, path, child) ==
  IF path \in DOMAIN tree THEN [tree EXCEPT ![path] = @ \cup {child}]
  ELSE tree @@ (path :> {child})

\* mutant: the key is the name of the parent in place of its path
RECURSIVE RegisterChannelsByName(_, _, _)
RegisterChannelsByName(tree, channels, k) ==
  IF k >= Len(channels) THEN tree
  ELSE RegisterChannelsByName(AddChild(tree, channels[k], channels[k + 1]),
                              channels, k + 1)

\* the channel tree loop of a header line, for k (1-based) up to n - 1
RECURSIVE RegisterChannels(_, _, _)
RegisterChannels(tree, channels, k) ==
  IF k >= Len(channels) THEN tree
  ELSE RegisterChannels(AddChild(tree, PrefixPath(channels, k), channels[k + 1]),
                        channels, k + 1)

\* tsToIndices.get(timestamp).push(index), creating the list when the key is new
AddTimestamp(map, ts, idx) ==
  IF ts \in DOMAIN map THEN [map EXCEPT ![ts] = Append(@, idx)]
  ELSE map @@ (ts :> <<idx>>)

EmptyMap == [x \in {} |-> {}]

\* current is the empty sequence for null and <<message>> for an open message
ParseStart ==
  [parsed |-> <<>>, sessions |-> <<>>, channelsTree |-> EmptyMap,
   tsToIndices |-> EmptyMap, current |-> <<>>, index |-> 0, sessionIndex |-> 0,
   currentLineInOriginal |-> 0]

\* mutant: the banner closes the open message
BannerStepClosing(st, lines, i) ==
  [st EXCEPT
     !.parsed = @ \o st.current,
     !.current = <<>>,
     !.sessions = Append(@, [index |-> st.sessionIndex + 1,
                             startLine |-> st.currentLineInOriginal,
                             startOffset |-> st.index,
                             firstMessageTimestamp |-> None,
                             buildVersion |-> FindBuildVersion(lines, i + 1),
                             transitions |-> <<>>]),
     !.sessionIndex = @ + 1,
     !.currentLineInOriginal = @ + 1]

\* mutant: startOffset is the line counter in place of the message counter
BannerStepOffsetByLine(st, lines, i) ==
  [st EXCEPT
     !.sessions = Append(@, [index |-> st.sessionIndex + 1,
                             startLine |-> st.currentLineInOriginal,
                             startOffset |-> st.currentLineInOriginal,
                             firstMessageTimestamp |-> None,
                             buildVersion |-> FindBuildVersion(lines, i + 1),
                             transitions |-> <<>>]),
     !.sessionIndex = @ + 1,
     !.currentLineInOriginal = @ + 1]

\* a banner line: one more session, nothing else changes
BannerStep(st, lines, i) ==
  [st EXCEPT
     !.sessions = Append(@, [index |-> st.sessionIndex + 1,
                             startLine |-> st.currentLineInOriginal,
                             startOffset |-> st.index,
                             firstMessageTimestamp |-> None,
                             buildVersion |-> FindBuildVersion(lines, i + 1),
                             transitions |-> <<>>]),
     !.sessionIndex = @ + 1,
     !.currentLineInOriginal = @ + 1]

\* mutant: the timestamp of the last session is set by every header line
HeaderStepOverwrite(st, line) ==
  LET rest1 == TrimStart(SliceFrom(line, HeadLength))
      wq == WorkingQueueMatchLen(rest1)
      rest2 == IF wq > 0 THEN TrimStart(SliceFrom(rest1, wq)) ELSE rest1
      pc == ParseChannels(rest2, <<>>)
      timestamp == HeadTimestamp(line)
      msg == [index |-> st.index, timestamp |-> timestamp, level |-> HeadLevel(line),
              channels |-> pc.channels, text |-> TrimStart(pc.rest)]
      n == Len(st.sessions)
  IN  [st EXCEPT
         !.parsed = @ \o st.current,
         !.current = <<msg>>,
         !.index = @ + 1,
         !.tsToIndices = AddTimestamp(@, timestamp, st.index),
         !.sessions = IF n > 0
                      THEN [@ EXCEPT ![n].firstMessageTimestamp = timestamp]
                      ELSE @,
         !.channelsTree = RegisterChannels(@, pc.channels, 1),
         !.currentLineInOriginal = @ + 1]

\* a header line: the open message is pushed and a new one is opened
HeaderStep(st, line) ==
  LET rest1 == TrimStart(SliceFrom(line, HeadLength))
      wq == WorkingQueueMatchLen(rest1)
      rest2 == IF wq > 0 THEN TrimStart(SliceFrom(rest1, wq)) ELSE rest1
      pc == ParseChannels(rest2, <<>>)
      timestamp == HeadTimestamp(line)
      msg == [index |-> st.index, timestamp |-> timestamp, level |-> HeadLevel(line),
              channels |-> pc.channels, text |-> TrimStart(pc.rest)]
      n == Len(st.sessions)
  IN  [st EXCEPT
         !.parsed = @ \o st.current,
         !.current = <<msg>>,
         !.index = @ + 1,
         !.tsToIndices = AddTimestamp(@, timestamp, st.index),
         !.sessions = IF n > 0 /\ @[n].firstMessageTimestamp = None
                      THEN [@ EXCEPT ![n].firstMessageTimestamp = timestamp]
                      ELSE @,
         !.channelsTree = RegisterChannels(@, pc.channels, 1),
         !.currentLineInOriginal = @ + 1]

\* mutant: the newline is added also to an empty text
ContinuationStepAlwaysNewline(st, line) ==
  IF st.current # <<>>
  THEN [st EXCEPT
          !.current[1].text = @ \o <<LF>> \o line,
          !.currentLineInOriginal = @ + 1]
  ELSE [st EXCEPT !.currentLineInOriginal = @ + 1]

\* any other line: appended to the open message, dropped when there is none
ContinuationStep(st, line) ==
  IF st.current # <<>>
  THEN [st EXCEPT
          !.current[1].text = @ \o (IF @ # <<>> THEN <<LF>> ELSE <<>>) \o line,
          !.currentLineInOriginal = @ + 1]
  ELSE [st EXCEPT !.currentLineInOriginal = @ + 1]

ParseLine(st, lines, i) ==
  IF startRegex(lines[i]) THEN BannerStep(st, lines, i)
  ELSE IF headPrefixRegex(lines[i]) THEN HeaderStep(st, lines[i])
  ELSE ContinuationStep(st, lines[i])

RECURSIVE ParseLoop(_, _, _)
ParseLoop(st, lines, i) ==
  IF i > Len(lines) THEN st ELSE ParseLoop(ParseLine(st, lines, i), lines, i + 1)

\* mutant: idx > s.startOffset in place of idx >= s.startOffset
RECURSIVE SessionScanStrict(_, _, _, _)
SessionScanStrict(sess, idx, k, sid) ==
  IF k > Len(sess) THEN sid
  ELSE IF idx > sess[k].startOffset
       THEN SessionScanStrict(sess, idx, k + 1, sess[k].index)
  ELSE sid

getSessionStrict(sess, idx) == SessionScanStrict(sess, idx, 1, 0)

\* mutant: the comparison the other way round, idx <= s.startOffset
RECURSIVE SessionScanReversed(_, _, _, _)
SessionScanReversed(sess, idx, k, sid) ==
  IF k > Len(sess) THEN sid
  ELSE IF idx <= sess[k].startOffset
       THEN SessionScanReversed(sess, idx, k + 1, sess[k].index)
  ELSE sid

getSessionReversed(sess, idx) == SessionScanReversed(sess, idx, 1, 0)

\* getSessionByMessageIndex: the index of the last session of the leading run of
\* sessions whose startOffset is at most idx; 0 when the first one is beyond idx
RECURSIVE SessionScan(_, _, _, _)
SessionScan(sess, idx, k, sid) ==
  IF k > Len(sess) THEN sid
  ELSE IF idx >= sess[k].startOffset THEN SessionScan(sess, idx, k + 1, sess[k].index)
  ELSE sid

getSessionByMessageIndex(sess, idx) == SessionScan(sess, idx, 1, 0)

\* /^From\s+(.+?)\s+to\s+(.+)$/ on a message text: the whitespace after From is
\* greedy, the first group lazy, the second runs to the end of the text; no
\* group holds a line terminator. <<[from, to]>> of the match the engine finds
\* first, the empty sequence when there is none.
FromText == <<"F", "r", "o", "m">>
ToText == <<"t", "o">>

\* \s+to\s+(.+)$ right after position b: the second group, None when this
\* does not match. The whitespace before "to" is the whole run after b; the
\* whitespace after it is the whole run too, unless it runs to the end of the
\* text, where it gives its last character back to (.+).
TransitionTail(text, b) ==
  LET n == Len(text)
      ns == {i \in (b + 1)..n : ~IsSpace(text[i])}
      t == IF ns = {} THEN n + 1 ELSE Min(ns)
      ns2 == {i \in (t + 2)..n : ~IsSpace(text[i])}
      y == IF ns2 = {} THEN n ELSE Min(ns2)
  IN  IF /\ t > b + 1
         /\ t + 1 <= n
         /\ SubSeq(text, t, t + 1) = ToText
         /\ y >= t + 3
         /\ \A i \in y..n : IsDot(text[i])
      THEN SubSeq(text, y, n)
      ELSE None

TransitionMatch(text) ==
  LET n == Len(text)
      ns == {i \in 5..n : ~IsSpace(text[i])}
      wmax == IF ns = {} THEN n - 4 ELSE Min(ns) - 5
      \* a: first position of the first group, b: its last position
      cands == {ab \in (5..n) \X (5..n) :
                  /\ ab[1] >= 6 /\ ab[1] <= 5 + wmax /\ ab[2] >= ab[1]
                  /\ \A i \in ab[1]..ab[2] : IsDot(text[i])
                  /\ TransitionTail(text, ab[2]) # None}
  IN  IF ~StartsWith(text, FromText) \/ cands = {} THEN <<>>
      ELSE LET a == Max({ab[1] : ab \in cands})
               b == Min({ab[2] : ab \in {c \in cands : c[1] = a}})
           IN  <<[from |-> SubSeq(text, a, b), to |-> TransitionTail(text, b)]>>

GameStateManager == <<"G", "a", "m", "e", "S", "t", "a", "t", "e", "M", "a", "n", "a", "g", "e", "r">>
GameStateChanged == <<"G", "a", "m", "e", "S", "t", "a", "t", "e", "C", "h", "a", "n", "g", "e", "d">>

Includes(seq, x) == \E i \in 1..Len(seq) : seq[i] = x

\* mutant: the transition goes to the last session of the list
RECURSIVE TransitionLoopLastSession(_, _, _, _)
TransitionLoopLastSession(parsedMsgs, sess, found, k) ==
  IF k > Len(parsedMsgs) THEN [sessions |-> sess, transitionMessageIndices |-> found]
  ELSE LET msg == parsedMsgs[k]
           m2 == TransitionMatch(msg.text)
           hit == /\ Includes(msg.channels, GameStateManager)
                  /\ Includes(msg.channels, GameStateChanged)
                  /\ m2 # <<>>
                  /\ Len(sess) > 0
       IN  IF ~hit THEN TransitionLoopLastSession(parsedMsgs, sess, found, k + 1)
           ELSE LET tr == [messageIndex |-> msg.index, timestamp |-> msg.timestamp,
                           from |-> m2[1].from, to |-> m2[1].to]
                IN  TransitionLoopLastSession(parsedMsgs,
                      [sess EXCEPT ![Len(sess)].transitions = Append(@, tr)],
                      found \cup {msg.index}, k + 1)

\* the state-transition loop that follows the line loop, from message k on:
\* [sessions, transitionMessageIndices]
RECURSIVE TransitionLoop(_, _, _, _)
TransitionLoop(parsedMsgs, sess, found, k) ==
  IF k > Len(parsedMsgs) THEN [sessions |-> sess, transitionMessageIndices |-> found]
  ELSE LET msg == parsedMsgs[k]
           m2 == TransitionMatch(msg.text)
           sid == getSessionByMessageIndex(sess, msg.index)
           hit == /\ Includes(msg.channels, GameStateManager)
                  /\ Includes(msg.channels, GameStateChanged)
                  /\ m2 # <<>>
                  /\ \E j \in 1..Len(sess) : sess[j].index = sid
       IN  IF ~hit THEN TransitionLoop(parsedMsgs, sess, found, k + 1)
           ELSE LET j == Min({x \in 1..Len(sess) : sess[x].index = sid})
                    tr == [messageIndex |-> msg.index, timestamp |-> msg.timestamp,
                           from |-> m2[1].from, to |-> m2[1].to]
                IN  TransitionLoop(parsedMsgs,
                                   [sess EXCEPT ![j].transitions = Append(@, tr)],
                                   found \cup {msg.index}, k + 1)

\* parseCombined(content): the derived state it leaves in the provider
parseCombined(content) ==
  LET lines == SplitLines(content)
      st == ParseLoop(ParseStart, lines, 1)
      msgs == st.parsed \o st.current
      tl == TransitionLoop(msgs, st.sessions, {}, 1)
  IN  [parsed |-> msgs, sessions |-> tl.sessions, channelsTree |-> st.channelsTree,
       tsToIndices |-> st.tsToIndices,
       transitionMessageIndices |-> tl.transitionMessageIndices]

\* ------------------------------------------------------------------------
\* filterMessages, calculateLevelCounts, generateCombinedLog
\* ------------------------------------------------------------------------

\* const knownLevels = ['!', 'E', 'W', 'I', 'D', '']; a level is a string
knownLevels == {<<"!">>, <<"E">>, <<"W">>, <<"I">>, <<"D">>, <<>>}

\* String(msg.level): the one character the header expression captured
LevelString(msg) == <<msg.level>>

\* the level test of the loop: FALSE is the 'continue'
LevelPasses(msg, payload) ==
  ~(LevelString(msg) \in knownLevels /\ LevelString(msg) \notin payload.levels)

\* mutant: a message without channels passes as soon as any channel is allowed
ChannelPassesAnyChannel(msg, payload) ==
  IF Len(msg.channels) > 0
  THEN \A i \in 1..Len(msg.channels) : PrefixPath(msg.channels, i) \in payload.channels
  ELSE payload.channels # {}

\* mutant: only the full path of the message is looked up
ChannelPassesDeepestOnly(msg, payload) ==
  IF Len(msg.channels) > 0
  THEN PrefixPath(msg.channels, Len(msg.channels)) \in payload.channels
  ELSE NO_CHANNEL \in payload.channels

\* the channel test of the loop
ChannelPasses(msg, payload) ==
  IF Len(msg.channels) > 0
  THEN \A i \in 1..Len(msg.channels) : PrefixPath(msg.channels, i) \in payload.channels
  ELSE NO_CHANNEL \in payload.channels

\* mutant: a message before the first banner passes whatever the sessions are
SessionPassesBeforeBanner(msg, sess, payload) ==
  \/ getSessionByMessageIndex(sess, msg.index) = 0
  \/ getSessionByMessageIndex(sess, msg.index) \in payload.sessions

\* the session test of the loop
SessionPasses(msg, sess, payload) ==
  getSessionByMessageIndex(sess, msg.index) \in payload.sessions

\* mutant: the query text is not lower-cased
TextPassesRawQuery(msg, payload) ==
  ~(/\ payload.text # <<>>
    /\ ~Contains(ToLowerCase(msg.text), payload.text)
    /\ ~Contains(ToLowerCase(PathStr(msg.channels)), payload.text))

\* the text test of the loop
TextPasses(msg, payload) ==
  LET text == ToLowerCase(payload.text)
  IN  ~(/\ text # <<>>
        /\ ~Contains(ToLowerCase(msg.text), text)
        /\ ~Contains(ToLowerCase(PathStr(msg.channels)), text))

filterMessages(parsedMsgs, sess, payload) ==
  {parsedMsgs[k].index : k \in
     {k \in 1..Len(parsedMsgs) :
        /\ LevelPasses(parsedMsgs[k], payload)
        /\ ChannelPasses(parsedMsgs[k], payload)
        /\ SessionPasses(parsedMsgs[k], sess, payload)
        /\ TextPasses(parsedMsgs[k], payload)}}

\* calculateLevelCounts: a counter for each of '!', E, W, I, D and ''
calculateLevelCounts(parsedMsgs) ==
  [l \in knownLevels |->
     Cardinality({k \in 1..Len(parsedMsgs) : LevelString(parsedMsgs[k]) = l})]

\* the line loop of generateCombinedLog:
\* [outputLines, currentMessageIndex, includeCurrentMessage]
GenStart == [outputLines |-> <<>>, currentMessageIndex |-> -1,
             includeCurrentMessage |-> FALSE]

\* mutant: a header line outside the allowed set leaves the include flag as it is
GenLineSticky(g, line, allowed) ==
  IF startRegex(line) \/ partRegex(line)
  THEN [g EXCEPT !.outputLines = Append(@, line)]
  ELSE LET m == headPrefixRegex(line)
           idx == IF m THEN g.currentMessageIndex + 1 ELSE g.currentMessageIndex
           inc == IF m /\ idx \in allowed THEN TRUE ELSE g.includeCurrentMessage
       IN  [outputLines |-> IF inc THEN Append(g.outputLines, line) ELSE g.outputLines,
            currentMessageIndex |-> idx,
            includeCurrentMessage |-> inc]

\* mutant: the part lines are not taken out before the header test
GenLineBannerOnly(g, line, allowed) ==
  IF startRegex(line)
  THEN [g EXCEPT !.outputLines = Append(@, line)]
  ELSE LET m == headPrefixRegex(line)
           idx == IF m THEN g.currentMessageIndex + 1 ELSE g.currentMessageIndex
           inc == IF m THEN idx \in allowed ELSE g.includeCurrentMessage
       IN  [outputLines |-> IF inc THEN Append(g.outputLines, line) ELSE g.outputLines,
            currentMessageIndex |-> idx,
            includeCurrentMessage |-> inc]

\* mutant: a session banner advances the counter of the messages
GenLineCountsBanner(g, line, allowed) ==
  IF startRegex(line)
  THEN [g EXCEPT !.outputLines = Append(@, line), !.currentMessageIndex = @ + 1]
  ELSE IF partRegex(line)
  THEN [g EXCEPT !.outputLines = Append(@, line)]
  ELSE LET m == headPrefixRegex(line)
           idx == IF m THEN g.currentMessageIndex + 1 ELSE g.currentMessageIndex
           inc == IF m THEN idx \in allowed ELSE g.includeCurrentMessage
       IN  [outputLines |-> IF inc THEN Append(g.outputLines, line) ELSE g.outputLines,
            currentMessageIndex |-> idx,
            includeCurrentMessage |-> inc]

GenLine(g, line, allowed) ==
  IF startRegex(line) \/ partRegex(line)
  THEN [g EXCEPT !.outputLines = Append(@, line)]
  ELSE LET m == headPrefixRegex(line)
           idx == IF m THEN g.currentMessageIndex + 1 ELSE g.currentMessageIndex
           inc == IF m THEN idx \in allowed ELSE g.includeCurrentMessage
       IN  [outputLines |-> IF inc THEN Append(g.outputLines, line) ELSE g.outputLines,
            currentMessageIndex |-> idx,
            includeCurrentMessage |-> inc]

RECURSIVE GenLoop(_, _, _, _)
GenLoop(g, lines, i, allowed) ==
  IF i > Len(lines) THEN g ELSE GenLoop(GenLine(g, lines[i], allowed), lines, i + 1, allowed)

generateCombinedLog(original, allowed) ==
  Join(GenLoop(GenStart, SplitLines(original), 1, allowed).outputLines, <<LF>>)

\* ------------------------------------------------------------------------
\* serializeChannelsTree
\* ------------------------------------------------------------------------
\* parent.split('>')
RECURSIVE SplitOn(_, _)
SplitOn(s, c) ==
  LET ps == {i \in 1..Len(s) : s[i] = c}
  IN  IF ps = {} THEN <<s>>
      ELSE <<SubSeq(s, 1, Min(ps) - 1)>> \o SplitOn(SubSeq(s, Min(ps) + 1, Len(s)), c)

\* the nodes one key of the index adds to the object: the nodes along the path
\* of the parent, and the children below it
NodesOfKey(tree, parent) ==
  LET parts == SplitOn(parent, ">")
  IN  {SubSeq(parts, 1, n) : n \in 1..Len(parts)} \cup {Append(parts, c) : c \in tree[parent]}

\* serializeChannelsTree(): the nested object, given by its nodes, each node
\* by the names from the root down to it
serializeChannelsTree(parsedMsgs, tree) ==
  (IF \E k \in 1..Len(parsedMsgs) : Len(parsedMsgs[k].channels) = 0
   THEN {<<NO_CHANNEL>>} ELSE {})
  \cup UNION {NodesOfKey(tree, parent) : parent \in DOMAIN tree}

\* ------------------------------------------------------------------------
\* combineLogs
\* ------------------------------------------------------------------------
\* What the handler finds on disk: disk.mode is "zip" when the selected file is
\* a .zip (the archive-of-archives mode) and "folder" otherwise; disk.log is
\* the text of log.txt or NoFile; disk.history lists the log.history<N>.txt.zip
\* archives in the order the directory (or the zip) lists them, each with its
\* name, the text of its log.txt and state "ok", "noentry" (a readable archive
\* without log.txt) or "corrupt" (opening or reading it throws); disk.writable
\* tells whether combined_logs.txt can be written; disk.charBytes is the number
\* of bytes of the files that each character of the model stands for (the logs
\* of the model are short: the same log with longer lines is larger).

LogTxt == <<"l", "o", "g", ".", "t", "x", "t">>
LogHistoryText == <<"l", "o", "g", ".", "h", "i", "s", "t", "o", "r", "y">>
TxtZipText == <<".", "t", "x", "t", ".", "z", "i", "p">>
HistoryText == <<"h", "i", "s", "t", "o", "r", "y">>
InnerSuffix == <<":", ":", "l", "o", "g", ".", "t", "x", "t">>
BeginPartLabel == BeginPartText \o <<" ">>
EndPartLabel == EndPartText \o <<" ">>
PartTail == <<" ", "=", "=", "=", "=", "=">>

DigitValue(c) ==
  CASE c = "0" -> 0 [] c = "1" -> 1 [] c = "2" -> 2 [] c = "3" -> 3 [] c = "4" -> 4
    [] c = "5" -> 5 [] c = "6" -> 6 [] c = "7" -> 7 [] c = "8" -> 8 [] c = "9" -> 9

\* Number(digits)
RECURSIVE NumberOf(_)
NumberOf(ds) ==
  IF ds = <<>> THEN 0 ELSE 10 * NumberOf(SubSeq(ds, 1, Len(ds) - 1)) + DigitValue(ds[Len(ds)])

\* Number(name.match(/history(\d+)/)?.[1] ?? 0)
HistoryNumber(name) ==
  LET ps == {p \in 1..(Len(name) - Len(HistoryText)) :
               /\ SubSeq(name, p, p + Len(HistoryText) - 1) = HistoryText
               /\ name[p + Len(HistoryText)] \in Digits}
  IN  IF ps = {} THEN 0
      ELSE LET from == Min(ps) + Len(HistoryText)
               nd == {i \in from..Len(name) : name[i] \notin Digits}
               stop == IF nd = {} THEN Len(name) ELSE Min(nd) - 1
           IN  NumberOf(SubSeq(name, from, stop))

\* mutant: na - nb, ascending by number
RECURSIVE InsertByNumberAscending(_, _)
InsertByNumberAscending(sorted, a) ==
  IF sorted = <<>> THEN <<a>>
  ELSE IF HistoryNumber(Head(sorted).name) <= HistoryNumber(a.name)
       THEN <<Head(sorted)>> \o InsertByNumberAscending(Tail(sorted), a)
       ELSE <<a>> \o sorted

\* history.sort((a, b) => nb - na): descending by number, stable
RECURSIVE InsertByNumber(_, _)
InsertByNumber(sorted, a) ==
  IF sorted = <<>> THEN <<a>>
  ELSE IF HistoryNumber(Head(sorted).name) >= HistoryNumber(a.name)
       THEN <<Head(sorted)>> \o InsertByNumber(Tail(sorted), a)
       ELSE <<a>> \o sorted

RECURSIVE SortHistory(_)
SortHistory(archives) ==
  IF archives = <<>> THEN <<>>
  ELSE InsertByNumber(SortHistory(SubSeq(archives, 1, Len(archives) - 1)),
                      archives[Len(archives)])

\* `\n===== BEGIN PART: ${label} =====\n` + content + `\n===== END PART: ${label} =====\n`
WrapPart(label, content) ==
  <<LF>> \o BeginPartLabel \o label \o PartTail \o <<LF>> \o content
         \o <<LF>> \o EndPartLabel \o label \o PartTail \o <<LF>>

HistoryPart(a) == WrapPart(a.name \o InnerSuffix, a.content)

RECURSIVE HistoryParts(_)
HistoryParts(archives) ==
  IF archives = <<>> THEN <<>>
  ELSE (IF Head(archives).state = "ok" THEN <<HistoryPart(Head(archives))>> ELSE <<>>)
       \o HistoryParts(Tail(archives))

CurrentPart(d) == IF d.log = NoFile THEN <<>> ELSE <<WrapPart(LogTxt, d.log)>>

\* the zip branch reads every nested archive inside try/catch; the folder
\* branch opens the archives with no handler, so one that throws ends the call
ReadThrows(d) ==
  d.mode = "folder" /\ \E i \in 1..Len(d.history) : d.history[i].state = "corrupt"

\* combinedParts.join('\n')
CombinedOf(d) == Join(HistoryParts(SortHistory(d.history)) \o CurrentPart(d), <<LF>>)

\* ------------------------------------------------------------------------
\* The inputs of the model
\* ------------------------------------------------------------------------
Ts(d) == <<"[", "0", "1", "-", "0", "1", " ", "0", "0", ":", "0", "0", ":", "0", "0",
           ".", "0", "0", d, "]">>

Banner == BannerText
HdrAB == Ts("1") \o <<"[", "I", "]">> \o <<" ", "[", "A", "]", "[", "B", "]", " ", "h", "e", "l", "l", "o">>
HdrAErr == Ts("1") \o <<"[", "E", "]">> \o <<" ", "[", "A", "]", " ", "E", "r", "r">>
HdrBlank == Ts("2") \o <<"[", " ", "]">> \o <<" ", "x">>
HdrT == Ts("3") \o <<"[", "T", "]">>
World == <<"w", "o", "r", "l", "d">>
EmptyLine == <<>>
BuildLine == <<"B", "u", "i", "l", "d", " ", "v", "e", "r", "s", "i", "o", "n", ":", " ", "1", ".", "2">>
HdrHist(d) == Ts(d) \o <<"[", "W", "]">> \o <<" ", "[", "A", "]", " ", "h", "i", "s", "t">>

\* a Build version line with whitespace around the value
BuildLineSp == <<"B", "u", "i", "l", "d", " ", "v", "e", "r", "s", "i", "o", "n", ":", " ", " ", "1", ".", "3", " ">>

\* header lines of state changes
HdrGSM == Ts("7") \o <<"[", "I", "]">> \o <<" ", "[">> \o GameStateManager
            \o <<"]", "[">> \o GameStateChanged \o <<"]", " ">>
            \o <<"F", "r", "o", "m", " ", "M", "e", "n", "u", " ", "t", "o", " ", "G", "a", "m", "e", "p", "l", "a", "y">>
HdrGSM3 == Ts("8") \o <<"[", "I", "]">> \o <<" ", "[">> \o GameStateManager
            \o <<"]", "[">> \o GameStateChanged \o <<"]", " ">>
            \o <<"F", "r", "o", "m", " ", " ", "A", " ", "t", "o", " ", "B", " ", "t", "o", " ", "C">>
HdrGSMOnly == Ts("8") \o <<"[", "I", "]">> \o <<" ", "[">> \o GameStateManager \o <<"]", " ">>
            \o <<"F", "r", "o", "m", " ", "A", " ", "t", "o", " ", "B">>

\* header lines whose channel tokens end early
HdrWQ == Ts("5") \o <<"[", "I", "]">> \o <<" ", "(", "W", "o", "r", "k", "i", "n", "g", "Q", "u", "e", "u", "e", ":", "1", "2", ")", " ", "[", "A", "]", " ", "[", "B", " ", "C", "]", " ", "t">>
HdrEmptyTok == Ts("5") \o <<"[", "I", "]">> \o <<" ", "[", "A", "]", "[", "]", " ", "x">>
HdrQuote == Ts("5") \o <<"[", "I", "]">> \o <<" ", "[", "'", "A", "'", "]", " ", "x">>
HdrOpen == Ts("6") \o <<"[", "I", "]">> \o <<" ", "[", "A", "]", " ", "[", "B">>
HdrWQBad == Ts("6") \o <<"[", "I", "]">> \o <<" ", "(", "W", "o", "r", "k", "i", "n", "g", "Q", "u", "e", "u", "e", ":", ")", " ", "[", "A", "]">>
HdrTabTok == Ts("6") \o <<"[", "I", "]">> \o <<"[", "A", "]", "\t", "[", "B", "]", " ", " ", "x", " ">>

PoolA == {Banner, HdrAB, HdrAErr, World, EmptyLine}
PoolB == {Banner, HdrBlank, HdrT, World, EmptyLine}
PoolC == {Banner, HdrAB, HdrBlank, HdrT, BuildLine}
PoolCR == {HdrAB, World, EmptyLine}
PoolView == {Banner, HdrAB, HdrAErr, HdrBlank}

SeqsUpTo(S, n) == UNION {[1..k -> S] : k \in 0..n}

FolderDisk(text) ==
  [mode |-> "folder", log |-> text, history |-> <<>>, writable |-> TRUE, charBytes |-> 1]

LineDisks(pool, n, eol) == {FolderDisk(Join(ls, eol)) : ls \in SeqsUpTo(pool, n)}

Archive(digits, st) ==
  [name |-> LogHistoryText \o digits \o TxtZipText, state |-> st,
   content |-> HdrHist(digits[Len(digits)])]

ArchiveStates == {"absent", "ok", "noentry", "corrupt"}

\* the directory lists the archives by name: log.history10.txt.zip, then
\* log.history2.txt.zip, then log.history9.txt.zip
Listing(s10, s2, s9) ==
  (IF s10 = "absent" THEN <<>> ELSE <<Archive(<<"1", "0">>, s10)>>)
  \o (IF s2 = "absent" THEN <<>> ELSE <<Archive(<<"2">>, s2)>>)
  \o (IF s9 = "absent" THEN <<>> ELSE <<Archive(<<"9">>, s9)>>)

HistoryDisks ==
  {[mode |-> m, log |-> l, history |-> Listing(s10, s2, s9), writable |-> w,
    charBytes |-> 1] :
     m \in {"folder", "zip"}, l \in {NoFile, HdrAB}, s10 \in ArchiveStates,
     s2 \in {"absent", "ok"}, s9 \in ArchiveStates, w \in {TRUE}}

Disks ==
  LineDisks(PoolA, MaxLines, <<LF>>) \cup LineDisks(PoolB, MaxLines, <<LF>>)
    \cup LineDisks(PoolC, MaxLines, <<LF>>) \cup LineDisks(PoolCR, MaxLines, <<CR, LF>>)
    \cup HistoryDisks

ViewDisks ==
  LineDisks(PoolView, MaxViewLines, <<LF>>)
    \cup {d \in HistoryDisks : d.log # NoFile /\ d.mode = "folder"
                               /\ \A i \in 1..Len(d.history) : d.history[i].state = "ok"}
    \cup {[FolderDisk(HdrAB) EXCEPT !.writable = FALSE], FolderDisk(NoFile)}

\* the inputs of the parser alone
PoolTok == {HdrWQ, HdrEmptyTok, HdrQuote, HdrOpen, HdrWQBad, HdrTabTok}

PoolSess == {Banner, HdrAB, HdrBlank, BuildLine, BuildLineSp}

PoolGSM == {Banner, HdrGSM, HdrGSM3, HdrGSMOnly, HdrAB}

\* header lines of channel paths of depth three, two and one
HdrABC == Ts("4") \o <<"[", "I", "]">> \o <<" ", "[", "A", "]", "[", "B", "]", "[", "C", "]", " ", "d", "e", "e", "p">>
HdrAC == Ts("4") \o <<"[", "I", "]">> \o <<" ", "[", "A", "]", "[", "C", "]", " ", "s", "i", "d", "e">>
HdrB1 == Ts("4") \o <<"[", "W", "]">> \o <<" ", "[", "B", "]", " ", "s", "o", "l", "o">>

PoolChan == {HdrABC, HdrAC, HdrB1, HdrAB, HdrBlank}

\* header lines whose channel tokens hold the characters of the joined paths:
\* one token A>B, and the two halves of the sentinel
HdrAgtB == Ts("5") \o <<"[", "I", "]">> \o <<" ", "[", "A", ">", "B", "]", " ", "o", "n", "e">>
HdrHalves == Ts("5") \o <<"[", "I", "]">>
               \o <<" ", "[", "(", "b", "e", "z", "]", "[", "k", "a", "n", "a", "l", "a", ")", "]", " ", "s">>

PoolJoin == {HdrAgtB, HdrAB, HdrHalves}

\* longer logs: banners that follow each other between messages, and state
\* changes of two sessions
LongLogs ==
  {<<HdrAB, Banner, Banner, HdrBlank>>,
   <<Banner, HdrAB, World, Banner, Banner, HdrBlank, HdrAB>>,
   <<Banner, HdrGSM, HdrGSM3, Banner, HdrGSM, HdrAB>>}

ParseDisks ==
  LineDisks(PoolTok, MaxLines, <<LF>>) \cup LineDisks(PoolSess, MaxLines, <<LF>>)
    \cup LineDisks(PoolGSM, MaxLines, <<LF>>) \cup LineDisks(PoolChan, MaxLines, <<LF>>)
    \cup LineDisks(PoolJoin, MaxLines, <<LF>>)
    \cup {FolderDisk(Join(ls, <<LF>>)) : ls \in LongLogs}

PathA == <<"A">>
PathAB == <<"A", ">", "B">>

\* a query that names every level, channel and session, with no text
AllQuery ==
  [levels |-> knownLevels, channels |-> {PathA, PathAB, NO_CHANNEL},
   sessions |-> 0..(MaxLines + 1), text |-> <<>>]

Queries ==
  {[AllQuery EXCEPT !.levels = l] :
     l \in {knownLevels, {<<"E">>}, {}, knownLevels \cup {<<" ">>, <<"T">>}}}
  \cup {[AllQuery EXCEPT !.channels = c] :
     c \in {{PathAB, NO_CHANNEL}, {PathA, NO_CHANNEL}, {PathA, PathAB}, {NO_CHANNEL}}}
  \cup {[AllQuery EXCEPT !.sessions = x] : x \in {{0}, {1}, {0, 2}}}
  \cup {[AllQuery EXCEPT !.text = x] : x \in {<<"E", "R", "R">>, <<"a">>, <<"x">>}}
  \cup {[levels |-> {<<"E">>, <<"I">>}, channels |-> {PathA, PathAB}, sessions |-> {1, 2},
         text |-> <<"e", "r", "r">>]}

\* the queries of the request sequences of Spec
ViewQueries ==
  {AllQuery,
   [AllQuery EXCEPT !.levels = {<<"E">>}],
   [AllQuery EXCEPT !.channels = {PathAB, NO_CHANNEL}],
   [AllQuery EXCEPT !.channels = {PathA, NO_CHANNEL}],
   [AllQuery EXCEPT !.sessions = {1}],
   [AllQuery EXCEPT !.text = <<"E", "R", "R">>]}

\* ------------------------------------------------------------------------
\* The provider
\* ------------------------------------------------------------------------
VARIABLES
  disk,                      \* the files the handler finds
  workspaceFolder,           \* this.workspaceFolder
  combinedPath,              \* this.combinedPath
  originalCombinedContent,   \* this.originalCombinedContent
  parsed,                    \* this.parsed
  sessions,                  \* this.sessions
  channelsTree,              \* this.channelsTree
  tsToIndices,               \* this.tsToIndices
  transitionMessageIndices,  \* this.transitionMessageIndices
  combinedFile,              \* the text of combined_logs.txt, NoFile before it exists
  posted,                    \* the last matchCount message posted to the view
  pendingCounts,             \* the timer of updateHtml is scheduled
  payload,                   \* the payload of the last applyFilters since the combine
  allowedMessageIndices,     \* the set filterMessages returned for it
  prevFile,                  \* combined_logs.txt as it was before that applyFilters
  inflight,                  \* the requests suspended at an await, oldest first
  editor,                    \* the document shown in the editor, the warnings open
  view,                      \* the page of the webview: its data and its controls
  navigation                 \* the last cursor move or jump, and what it posted

vars == <<disk, workspaceFolder, combinedPath, originalCombinedContent, parsed, sessions,
          channelsTree, tsToIndices, transitionMessageIndices, combinedFile, posted,
          pendingCounts, payload, allowedMessageIndices, prevFile, inflight, editor,
          view, navigation>>

derived == <<parsed, sessions, channelsTree, tsToIndices, transitionMessageIndices>>

WorkDir == <<"dir">>
OutPath == <<"dir/combined_logs.txt">>

\* The page of the webview. The script of the page runs only with data: it
\* holds the channel tree and the colours it was generated with, one row for
\* each session, the map channelStates, the channel boxes of the tree as it
\* is rendered with their checked state, the root box, the level and session
\* boxes that are checked, and the texts of the two inputs.
NoView ==
  [hasData |-> FALSE, channelsData |-> {}, channelColors |-> {}, rows |-> {},
   channelStates |-> <<>>, boxes |-> <<>>, rootEye |-> TRUE, levels |-> {},
   sessions |-> {}, text |-> <<>>, channelFilter |-> <<>>]

\* the keys of this.channelColors when updateHtml reads them: parseCombined
\* has asked a colour for every prefix path of every message, and
\* serializeChannelsTree one for the sentinel when a message has no channels
channelColorKeys(parsedMsgs) ==
  UNION {{PrefixPath(parsedMsgs[k].channels, n) : n \in 1..Len(parsedMsgs[k].channels)} :
           k \in 1..Len(parsedMsgs)}
  \cup (IF \E k \in 1..Len(parsedMsgs) : Len(parsedMsgs[k].channels) = 0
        THEN {NO_CHANNEL} ELSE {})

\* initializeChannelStates: every key of channelColors and the sentinel, enabled
initializeChannelStates(colors) == [path \in colors \cup {NO_CHANNEL} |-> TRUE]

\* getChannelState(channelPath): a path the map does not hold is enabled
getChannelState(states, channelPath) ==
  IF channelPath \in DOMAIN states THEN states[channelPath] ELSE TRUE

\* filterTree(channelsData, query): the nodes whose name holds the query,
\* whatever the case, and the nodes above them; every node without a query
filterTree(nodes, query) ==
  IF query = <<>> THEN nodes
  ELSE {n \in nodes :
          \E m \in nodes :
            /\ Len(m) >= Len(n) /\ SubSeq(m, 1, Len(n)) = n
            /\ Contains(ToLowerCase(m[Len(m)]), ToLowerCase(query))}

\* a renderTree that draws every box checked, as a tree that kept no state of
\* its own would
renderTreeAllChecked(nodes, states) ==
  [id \in {Join(n, GT) : n \in nodes} |-> TRUE]

\* renderTree of the filtered tree: one box for each node, its id the names
\* down to the node joined by '>', checked as getChannelState tells
renderTree(nodes, states) ==
  [id \in {Join(n, GT) : n \in nodes} |-> getChannelState(states, id)]

\* webview.html = renderHtml(...) of updateHtml, and the script of that page
\* up to its end: all six level boxes and the box of every session checked
renderHtml(parsedMsgs, sess, tree) ==
  [hasData |-> TRUE,
   channelsData |-> serializeChannelsTree(parsedMsgs, tree),
   channelColors |-> channelColorKeys(parsedMsgs),
   rows |-> {sess[k].index : k \in 1..Len(sess)},
   channelStates |-> initializeChannelStates(channelColorKeys(parsedMsgs)),
   boxes |-> renderTree(serializeChannelsTree(parsedMsgs, tree),
                        initializeChannelStates(channelColorKeys(parsedMsgs))),
   rootEye |-> TRUE,
   levels |-> knownLevels,
   sessions |-> {sess[k].index : k \in 1..Len(sess)},
   text |-> <<>>,
   channelFilter |-> <<>>]

\* no cursor move and no jump has been handled. navigation.sent tells whether
\* the handler posted an activeLocation message, navigation.payload is <<>>
\* for the payload null and <<location>> else
NoNavigation ==
  [type |-> "none", at |-> 0, revealed |-> <<>>, sent |-> FALSE, payload |-> <<>>]

\* the state the constructor leaves
Constructed ==
  /\ workspaceFolder = None
  /\ combinedPath = None
  /\ originalCombinedContent = <<>>
  /\ parsed = <<>>
  /\ sessions = <<>>
  /\ channelsTree = EmptyMap
  /\ tsToIndices = EmptyMap
  /\ transitionMessageIndices = {}
  /\ combinedFile = NoFile
  /\ posted = <<>>
  /\ pendingCounts = FALSE
  /\ payload = <<>>
  /\ allowedMessageIndices = {}
  /\ prevFile = NoFile
  /\ inflight = <<>>
  /\ editor = [shown |-> <<>>, prompts |-> 0]
  /\ view = NoView
  /\ navigation = NoNavigation

Init == disk \in ViewDisks /\ Constructed

InitPipeline == disk \in Disks /\ Constructed

\* combineLogs, called by handleOpenFolder after it has set workspaceFolder.
\* The statements run in the order of the source: an archive that throws
\* leaves everything as it was; a write that throws leaves the new original
\* content with the old path and the old derived state.
combineLogs ==
  IF ReadThrows(disk)
  THEN UNCHANGED <<originalCombinedContent, combinedFile, combinedPath, derived>>
  ELSE LET combined == CombinedOf(disk)
           p == parseCombined(combined)
       IN  /\ originalCombinedContent' = combined
           /\ IF ~disk.writable
              THEN UNCHANGED <<combinedFile, combinedPath, derived>>
              ELSE /\ combinedFile' = combined
                   /\ combinedPath' = OutPath
                   /\ parsed' = p.parsed
                   /\ sessions' = p.sessions
                   /\ channelsTree' = p.channelsTree
                   /\ tsToIndices' = p.tsToIndices
                   /\ transitionMessageIndices' = p.transitionMessageIndices

CombineThrows == ReadThrows(disk) \/ ~disk.writable

\* fs.statSync(this.combinedPath).size of a file of this text: utf8, and every
\* character of the model is one byte of it
FileSize(text) == Len(text) * disk.charBytes

\* fileSizeMB > 50, with fileSizeMB = stats.size / (1024 * 1024)
SizeLimitMB == 50
BytesPerMB == 1048576

TooLarge(text) == FileSize(text) > SizeLimitMB * BytesPerMB

\* showTextDocument of the file as it is now
Shown(text, by) == <<[bytes |-> FileSize(text), by |-> by]>>

\* openCombined on the file combineLogs has written: beyond the limit a warning
\* with the button that opens the file, and nothing is shown; else the document
openCombined(text) ==
  IF TooLarge(text) THEN [editor EXCEPT !.prompts = @ + 1]
  ELSE [editor EXCEPT !.shown = Shown(text, "auto")]

\* reloadAndDecorate: the document is closed when it is open, and opened again
reloadAndDecorate(text) == [editor EXCEPT !.shown = Shown(text, "auto")]

\* the warnings that are open at once are bounded in the model
PromptFits(text) == TooLarge(text) => editor.prompts < MaxPrompts

\* handleOpenFolder: the user selects a file; combineLogs; openCombined;
\* updateHtml, which schedules the post of the initial counts when there is data
HandleOpenFolder ==
  /\ CombineThrows \/ PromptFits(CombinedOf(disk))
  /\ workspaceFolder' = WorkDir
  /\ combineLogs
  /\ editor' = IF CombineThrows THEN editor ELSE openCombined(CombinedOf(disk))
  /\ pendingCounts' = IF CombineThrows THEN pendingCounts ELSE TRUE
  /\ payload' = <<>>
  /\ allowedMessageIndices' = {}
  /\ prevFile' = NoFile
  /\ view' = IF CombineThrows THEN view ELSE renderHtml(parsed', sessions', channelsTree')
  /\ UNCHANGED <<navigation, inflight, disk, posted>>

\* the timer of updateHtml: post the counts of the unfiltered set
PostInitialCounts ==
  /\ pendingCounts
  /\ pendingCounts' = FALSE
  /\ posted' = <<[count |-> Len(parsed), levelCounts |-> calculateLevelCounts(parsed)]>>
  /\ UNCHANGED <<view, navigation, inflight, editor, disk, workspaceFolder, combinedPath,
                 originalCombinedContent,
                 derived, combinedFile, payload, allowedMessageIndices, prevFile>>

\* mutant: the file is regenerated from the file of the filter before
ApplyFiltersFromFile(q) ==
  /\ combinedPath # None
  /\ originalCombinedContent # <<>>
  /\ LET allowed == filterMessages(parsed, sessions, q)
     IN  /\ allowedMessageIndices' = allowed
         /\ combinedFile' = generateCombinedLog(combinedFile, allowed)
         /\ editor' = reloadAndDecorate(generateCombinedLog(combinedFile, allowed))
         /\ posted' = <<[count |-> Cardinality(allowed),
                         levelCounts |-> calculateLevelCounts(parsed)]>>
  /\ payload' = <<q>>
  /\ prevFile' = combinedFile
  /\ UNCHANGED <<view, navigation, inflight, disk, workspaceFolder, combinedPath,
                 originalCombinedContent, derived, pendingCounts>>

\* mutant: the regenerated text is kept as the content to filter next
ApplyFiltersInPlace(q) ==
  /\ combinedPath # None
  /\ originalCombinedContent # <<>>
  /\ LET allowed == filterMessages(parsed, sessions, q)
     IN  /\ allowedMessageIndices' = allowed
         /\ combinedFile' = generateCombinedLog(originalCombinedContent, allowed)
         /\ originalCombinedContent' = generateCombinedLog(originalCombinedContent, allowed)
         /\ editor' = reloadAndDecorate(generateCombinedLog(originalCombinedContent, allowed))
         /\ posted' = <<[count |-> Cardinality(allowed),
                         levelCounts |-> calculateLevelCounts(parsed)]>>
  /\ payload' = <<q>>
  /\ prevFile' = combinedFile
  /\ UNCHANGED <<view, navigation, inflight, disk, workspaceFolder, combinedPath, derived, pendingCounts>>

\* applyFilters(q) of the provider; it returns at once without a path or
\* without content
applyFilters(q) ==
  /\ combinedPath # None
  /\ originalCombinedContent # <<>>
  /\ LET allowed == filterMessages(parsed, sessions, q)
     IN  /\ allowedMessageIndices' = allowed
         /\ combinedFile' = generateCombinedLog(originalCombinedContent, allowed)
         /\ editor' = reloadAndDecorate(generateCombinedLog(originalCombinedContent, allowed))
         /\ posted' = <<[count |-> Cardinality(allowed),
                         levelCounts |-> calculateLevelCounts(parsed)]>>
  /\ payload' = <<q>>
  /\ prevFile' = combinedFile
  /\ UNCHANGED <<navigation, inflight, disk, workspaceFolder, combinedPath,
                 originalCombinedContent, derived, pendingCounts>>

\* an applyFilters message with payload q is handled; the page stays as it is
ApplyFilters(q) == applyFilters(q) /\ UNCHANGED view

Next ==
  \/ HandleOpenFolder
  \/ PostInitialCounts
  \/ \E q \in ViewQueries : ApplyFilters(q)

Spec == Init /\ [][Next]_vars

\* The pipeline alone, on every input of the bounds: one combine, one filter
CombineOnce ==
  /\ workspaceFolder = None
  /\ workspaceFolder' = WorkDir
  /\ combineLogs
  /\ UNCHANGED <<view, navigation, inflight, editor, disk, posted, pendingCounts, payload,
                 allowedMessageIndices, prevFile>>

FilterOnce(q) == payload = <<>> /\ ApplyFilters(q)

NextPipeline ==
  \/ CombineOnce
  \/ \E q \in Queries : FilterOnce(q)

SpecPipeline == InitPipeline /\ [][NextPipeline]_vars

\* The parser alone, on inputs made for it: one combine
InitParse == disk \in ParseDisks /\ Constructed

NextParse == CombineOnce

SpecParse == InitParse /\ [][NextParse]_vars

\* The handlers step by step. onDidReceiveMessage starts an async handler for
\* every message; a handler runs until its next await on a promise of the
\* editor (a dialog, a document that opens, a timer), where it is suspended
\* and other messages are handled. A suspended request is a record: its kind,
\* the await it is at, and the size of the allowed set it holds.
Suspended(kind, stage, count) == [kind |-> kind, stage |-> stage, count |-> count]

RemoveAt(seq, i) == SubSeq(seq, 1, i - 1) \o SubSeq(seq, i + 1, Len(seq))

\* handleOpenFolder up to 'await showOpenDialog'; the dialog is modal, so no
\* second one opens while it is shown
BeginOpenFolder ==
  /\ Len(inflight) < MaxInflight
  /\ \A i \in 1..Len(inflight) : inflight[i].stage # "dialog"
  /\ inflight' = Append(inflight, Suspended("openFolder", "dialog", 0))
  /\ UNCHANGED <<view, navigation, editor, disk, workspaceFolder, combinedPath,
                 originalCombinedContent,
                 derived, combinedFile, posted, pendingCounts, payload,
                 allowedMessageIndices, prevFile>>

\* the dialog is dismissed: handleOpenFolder returns
CancelDialog(i) ==
  /\ inflight[i].kind = "openFolder" /\ inflight[i].stage = "dialog"
  /\ inflight' = RemoveAt(inflight, i)
  /\ UNCHANGED <<view, navigation, editor, disk, workspaceFolder, combinedPath,
                 originalCombinedContent,
                 derived, combinedFile, posted, pendingCounts, payload,
                 allowedMessageIndices, prevFile>>

\* a file is selected: workspaceFolder, combineLogs, then openCombined up to
\* 'await openTextDocument'; an exception of combineLogs ends the request;
\* beyond the size limit openCombined returns after the warning, nothing is
\* awaited and the handler runs on to updateHtml
SelectFile(i) ==
  /\ inflight[i].kind = "openFolder" /\ inflight[i].stage = "dialog"
  /\ CombineThrows \/ PromptFits(CombinedOf(disk))
  /\ workspaceFolder' = WorkDir
  /\ combineLogs
  /\ IF CombineThrows
     THEN /\ inflight' = RemoveAt(inflight, i)
          /\ UNCHANGED <<editor, pendingCounts, view>>
     ELSE IF TooLarge(CombinedOf(disk))
     THEN /\ inflight' = RemoveAt(inflight, i)
          /\ editor' = openCombined(CombinedOf(disk))
          /\ pendingCounts' = TRUE
          /\ view' = renderHtml(parsed', sessions', channelsTree')
     ELSE /\ inflight' = [inflight EXCEPT ![i].stage = "opening"]
          /\ UNCHANGED <<editor, pendingCounts, view>>
  /\ payload' = <<>>
  /\ allowedMessageIndices' = {}
  /\ prevFile' = NoFile
  /\ UNCHANGED <<navigation, disk, posted>>

\* the document is shown: updateHtml, which schedules the initial counts
FinishOpenFolder(i) ==
  /\ inflight[i].kind = "openFolder" /\ inflight[i].stage = "opening"
  /\ inflight' = RemoveAt(inflight, i)
  /\ pendingCounts' = (combinedPath # None \/ pendingCounts)
  /\ editor' = [editor EXCEPT !.shown = Shown(combinedFile, "auto")]
  /\ view' = IF combinedPath # None THEN renderHtml(parsed, sessions, channelsTree) ELSE NoView
  /\ UNCHANGED <<navigation, disk, workspaceFolder, combinedPath, originalCombinedContent,
                 derived, combinedFile, posted, payload, allowedMessageIndices, prevFile>>

\* applyFilters(q) up to 'await this.reloadAndDecorate()': filter, generate,
\* write the file
BeginApplyFilters(q) ==
  /\ Len(inflight) < MaxInflight
  /\ combinedPath # None
  /\ originalCombinedContent # <<>>
  /\ LET allowed == filterMessages(parsed, sessions, q)
     IN  /\ allowedMessageIndices' = allowed
         /\ combinedFile' = generateCombinedLog(originalCombinedContent, allowed)
         /\ inflight' = Append(inflight,
                               Suspended("applyFilters", "reload", Cardinality(allowed)))
  /\ payload' = <<q>>
  /\ prevFile' = combinedFile
  /\ UNCHANGED <<view, navigation, editor, disk, workspaceFolder, combinedPath,
                 originalCombinedContent,
                 derived, posted, pendingCounts>>

\* the document is reloaded: the counts are posted with the size of the set
\* this call computed
FinishApplyFilters(i) ==
  /\ inflight[i].kind = "applyFilters"
  /\ inflight' = RemoveAt(inflight, i)
  /\ posted' = <<[count |-> inflight[i].count,
                  levelCounts |-> calculateLevelCounts(parsed)]>>
  /\ editor' = reloadAndDecorate(combinedFile)
  /\ UNCHANGED <<view, navigation, disk, workspaceFolder, combinedPath,
                 originalCombinedContent, derived, combinedFile, pendingCounts, payload,
                 allowedMessageIndices, prevFile>>

\* the timer of updateHtml, next to suspended requests
PostCountsAsync ==
  /\ pendingCounts
  /\ pendingCounts' = FALSE
  /\ posted' = <<[count |-> Len(parsed), levelCounts |-> calculateLevelCounts(parsed)]>>
  /\ UNCHANGED <<view, navigation, inflight, editor, disk, workspaceFolder, combinedPath,
                 originalCombinedContent, derived, combinedFile, payload,
                 allowedMessageIndices, prevFile>>

AsyncDisks ==
  {FolderDisk(HdrAB \o <<LF>> \o HdrAErr), FolderDisk(Banner \o <<LF>> \o HdrAB),
   [FolderDisk(HdrAB) EXCEPT !.writable = FALSE]}

AsyncQueries == {AllQuery, [AllQuery EXCEPT !.levels = {<<"E">>}]}

InitAsync == disk \in AsyncDisks /\ Constructed

NextAsync ==
  \/ BeginOpenFolder
  \/ \E i \in 1..Len(inflight) : CancelDialog(i)
  \/ \E i \in 1..Len(inflight) : SelectFile(i)
  \/ \E i \in 1..Len(inflight) : FinishOpenFolder(i)
  \/ \E q \in AsyncQueries : BeginApplyFilters(q)
  \/ \E i \in 1..Len(inflight) : FinishApplyFilters(i)
  \/ PostCountsAsync

SpecAsync == InitAsync /\ [][NextAsync]_vars

\* The display of the combined file, on logs of both sides of the size limit.
\* The button of a warning is chosen: the then of showWarningMessage opens
\* the file as it is now
ConfirmOpen ==
  /\ editor.prompts > 0
  /\ editor' = [shown |-> Shown(combinedFile, "user"), prompts |-> editor.prompts - 1]
  /\ UNCHANGED <<view, navigation, inflight, disk, workspaceFolder, combinedPath,
                 originalCombinedContent,
                 derived, combinedFile, posted, pendingCounts, payload,
                 allowedMessageIndices, prevFile>>

\* a warning is closed without the button
DismissPrompt ==
  /\ editor.prompts > 0
  /\ editor' = [editor EXCEPT !.prompts = @ - 1]
  /\ UNCHANGED <<view, navigation, inflight, disk, workspaceFolder, combinedPath,
                 originalCombinedContent,
                 derived, combinedFile, posted, pendingCounts, payload,
                 allowedMessageIndices, prevFile>>

\* with 512 KiB for a character the combined file of HdrAB alone is 50 MB to
\* the byte, and those of the longer logs are beyond
DisplayDisks ==
  {[FolderDisk(t) EXCEPT !.charBytes = b] :
     t \in {HdrAB, HdrAB \o <<LF>> \o HdrAErr, HdrAB \o <<LF>> \o World \o <<LF>> \o HdrAErr},
     b \in {1, 524288}}

DisplayQueries == {AllQuery, [AllQuery EXCEPT !.levels = {<<"E">>}], [AllQuery EXCEPT !.levels = {}]}

InitDisplay == disk \in DisplayDisks /\ Constructed

NextDisplay ==
  \/ HandleOpenFolder
  \/ PostInitialCounts
  \/ \E q \in DisplayQueries : ApplyFilters(q)
  \/ ConfirmOpen
  \/ DismissPrompt

SpecDisplay == InitDisplay /\ [][NextDisplay]_vars

\* ------------------------------------------------------------------------
\* Cursor tracking and navigation
\* ------------------------------------------------------------------------
\* editor.document of the editor that shows the combined file, line by line
\* (lineAt is 0-based: line n of the document is DocumentLines[n + 1])
DocumentLines == SplitLines(combinedFile)

\* the walk up from the cursor line to a header line: its line, -1 without one
NearestHeader(lines, lineIdx) ==
  LET hs == {i \in 0..lineIdx : headPrefixRegex(lines[i + 1])}
  IN  IF hs = {} THEN -1 ELSE Max(hs)

\* the headers of timestamp ts in the lines 0..lineIdx of the document
CountOccurrence(lines, lineIdx, ts) ==
  Cardinality({i \in 0..lineIdx :
                 headPrefixRegex(lines[i + 1]) /\ HeadTimestamp(lines[i + 1]) = ts})

\* this.sessions.find(s => s.index === sid): <<s>>, or <<>> for undefined
FindSession(sess, sid) ==
  LET ks == {k \in 1..Len(sess) : sess[k].index = sid}
  IN  IF ks = {} THEN <<>> ELSE <<sess[Min(ks)]>>

\* the loop over s.transitions from the end: the last transition of the
\* session whose messageIndex <= targetIndex, <<>> for undefined
LatestTransition(found, targetIndex) ==
  IF found = <<>> THEN <<>>
  ELSE LET ts == found[1].transitions
           is == {i \in 1..Len(ts) : ts[i].messageIndex <= targetIndex}
       IN  IF is = {} THEN <<>> ELSE <<ts[Max(is)].messageIndex>>

\* the payload of an activeLocation message
Location(sid, transitionIdx) == [sessionIndex |-> sid, transitionMessageIndex |-> transitionIdx]

\* handleSelectionChange with the cursor on line pos (0-based) of the
\* document: the payload it posts, <<>> for null
handleSelectionChange(pos) ==
  IF combinedPath = None \/ editor.shown = <<>> THEN <<>>
  ELSE LET lines == DocumentLines
           lineIdx == NearestHeader(lines, pos)
       IN  IF lineIdx < 0 THEN <<>>
           ELSE LET ts == HeadTimestamp(lines[lineIdx + 1])
                    candidates == IF ts \in DOMAIN tsToIndices THEN tsToIndices[ts] ELSE <<>>
                IN  IF Len(candidates) = 0 THEN <<>>
                    ELSE LET occurrence == CountOccurrence(lines, lineIdx, ts)
                             targetIndex ==
                               candidates[Max({0, Min({Len(candidates) - 1, occurrence - 1})}) + 1]
                             sid == getSessionByMessageIndex(sessions, targetIndex)
                         IN  <<Location(sid, LatestTransition(FindSession(sessions, sid),
                                                              targetIndex))>>

\* the selection of the editor changes: the cursor is on a line of the document
HandleSelectionChange(pos) ==
  /\ combinedFile # NoFile
  /\ pos \in 0..(Len(DocumentLines) - 1)
  /\ navigation' = [type |-> "selection", at |-> pos, revealed |-> <<>>, sent |-> TRUE,
                     payload |-> handleSelectionChange(pos)]
  /\ UNCHANGED <<view, inflight, editor, disk, workspaceFolder, combinedPath,
                 originalCombinedContent, derived, combinedFile, posted, pendingCounts,
                 payload, allowedMessageIndices, prevFile>>

\* text.indexOf(needle): the 0-based position of the first occurrence, or -1
IndexOf(text, needle) ==
  LET ps == {i \in 1..(Len(text) - Len(needle) + 1) :
               SubSeq(text, i, i + Len(needle) - 1) = needle}
  IN  IF ps = {} THEN -1 ELSE Min(ps) - 1

\* doc.positionAt(pos).line: the line breaks before the position
LineAt(text, pos) == Cardinality({i \in 1..pos : text[i] = LF})

\* `[${ts}]`
Bracketed(ts) == <<"[">> \o ts \o <<"]">>

\* revealSession(sessionIndex) of a jumpToSession message: the document is
\* shown; the first occurrence of the timestamp of the first message of the
\* session is revealed and the session posted, when there is one
RevealSession(sessionIndex) ==
  /\ combinedPath # None
  /\ editor' = [editor EXCEPT !.shown = Shown(combinedFile, "user")]
  /\ LET s == FindSession(sessions, sessionIndex)
         at == IF s = <<>> \/ s[1].startOffset >= Len(parsed) THEN -1
               ELSE IndexOf(combinedFile, Bracketed(parsed[s[1].startOffset + 1].timestamp))
     IN  navigation' =
           [type |-> "jumpToSession", at |-> sessionIndex,
            revealed |-> IF at >= 0 THEN <<LineAt(combinedFile, at)>> ELSE <<>>,
            sent |-> at >= 0,
            payload |-> IF at >= 0 THEN <<Location(sessionIndex, <<>>)>> ELSE <<>>]
  /\ UNCHANGED <<view, inflight, disk, workspaceFolder, combinedPath,
                 originalCombinedContent, derived, combinedFile, posted, pendingCounts,
                 payload, allowedMessageIndices, prevFile>>

\* this.parsed.find(m => m.index === messageIndex): <<m>>, or <<>>
FindMessage(parsedMsgs, messageIndex) ==
  LET ks == {k \in 1..Len(parsedMsgs) : parsedMsgs[k].index = messageIndex}
  IN  IF ks = {} THEN <<>> ELSE <<parsedMsgs[Min(ks)]>>

\* revealTransition(messageIndex) of a jumpToTransition message; it returns
\* before the document is opened when no message has the index
RevealTransition(messageIndex) ==
  /\ combinedPath # None
  /\ LET msg == FindMessage(parsed, messageIndex)
         at == IF msg = <<>> THEN -1
               ELSE IndexOf(combinedFile, Bracketed(msg[1].timestamp))
     IN  /\ editor' = IF msg = <<>> THEN editor
                      ELSE [editor EXCEPT !.shown = Shown(combinedFile, "user")]
         /\ navigation' =
               [type |-> "jumpToTransition", at |-> messageIndex,
                revealed |-> IF at >= 0 THEN <<LineAt(combinedFile, at)>> ELSE <<>>,
                sent |-> at >= 0,
                payload |-> IF at >= 0
                            THEN <<Location(getSessionByMessageIndex(sessions, messageIndex),
                                            <<messageIndex>>)>>
                            ELSE <<>>]
  /\ UNCHANGED <<view, inflight, disk, workspaceFolder, combinedPath,
                 originalCombinedContent, derived, combinedFile, posted, pendingCounts,
                 payload, allowedMessageIndices, prevFile>>

\* the jump buttons of the page: one for each session row, one for each
\* transition of a session
JumpSessions == view.rows
JumpTransitions ==
  UNION {{sessions[k].transitions[n].messageIndex : n \in 1..Len(sessions[k].transitions)} :
           k \in 1..Len(sessions)}

\* logs where messages share a timestamp across banners, with state changes,
\* and one where every message has a timestamp of its own
NavLogs ==
  {<<HdrAB, Banner, HdrAErr, World, HdrAB>>,
   <<Banner, HdrAB, HdrAErr, Banner, HdrAB, HdrBlank>>,
   <<Banner, HdrGSM, Banner, HdrGSM, HdrAB>>,
   <<Banner, HdrBlank, World, Banner, HdrGSM, HdrT>>}

NavDisks == {FolderDisk(Join(ls, <<LF>>)) : ls \in NavLogs}

\* queries of the page of the log: every box checked, one level
NavQueries ==
  LET all == [levels |-> knownLevels, channels |-> DOMAIN view.channelStates,
              sessions |-> 0..Len(sessions), text |-> <<>>]
  IN  {all, [all EXCEPT !.levels = {<<"E">>}]}

InitNavigate == disk \in NavDisks /\ Constructed

NextNavigate ==
  \/ HandleOpenFolder
  \/ \E q \in NavQueries : ApplyFilters(q)
  \/ \E pos \in 0..(Len(DocumentLines) - 1) : HandleSelectionChange(pos)
  \/ \E k \in JumpSessions : RevealSession(k)
  \/ \E i \in JumpTransitions : RevealTransition(i)

SpecNavigate == InitNavigate /\ [][NextNavigate]_vars

\* ------------------------------------------------------------------------
\* The controls of the page
\* ------------------------------------------------------------------------
\* getAllChildPaths(parentPath): the keys of channelColors below the path
getAllChildPaths(colors, parentPath) ==
  {key \in colors : StartsWith(key, parentPath \o GT)}

\* setChannelState(channelPath, state): the path and all its child paths
setChannelState(states, colors, channelPath, state) ==
  LET set == {channelPath} \cup getAllChildPaths(colors, channelPath)
  IN  [path \in DOMAIN states \cup set |-> IF path \in set THEN state ELSE states[path]]

\* getActiveChannels(): the paths of the map whose state is true
getActiveChannels(states) == {path \in DOMAIN states : states[path]}

\* the proper ancestor paths of a box id: parts.slice(0, i + 1).join('>')
\* for i < parts.length - 1; none for the sentinel
ParentPaths(id) ==
  IF id = NO_CHANNEL THEN {}
  ELSE LET parts == SplitOn(id, ">")
       IN  {Join(SubSeq(parts, 1, n), GT) : n \in 1..(Len(parts) - 1)}

\* what apply() posts: the checked levels, the active channels of the map,
\* the checked sessions and the text of the filter input
ApplyPayload(v) ==
  [levels |-> v.levels, channels |-> getActiveChannels(v.channelStates),
   sessions |-> v.sessions, text |-> v.text]

\* apply() at the end of a handler of the page that leaves the page as v,
\* and the applyFilters message handled by the provider
Apply(v) ==
  /\ view' = v
  /\ IF combinedPath # None /\ originalCombinedContent # <<>>
     THEN applyFilters(ApplyPayload(v))
     ELSE UNCHANGED <<navigation, inflight, editor, disk, workspaceFolder, combinedPath,
                      originalCombinedContent, derived, combinedFile, posted,
                      pendingCounts, payload, allowedMessageIndices, prevFile>>

\* the change handler of the box of channel id: the box the user has clicked
\* is checked or not, the map follows for the path and its child paths, the
\* boxes below follow the map
ToggleChannel(id) ==
  /\ view.hasData /\ id \in DOMAIN view.boxes
  /\ LET checked == ~view.boxes[id]
         states == setChannelState(view.channelStates, view.channelColors, id, checked)
     IN  Apply([view EXCEPT
                  !.channelStates = states,
                  !.boxes = [c \in DOMAIN view.boxes |->
                               IF c = id THEN checked
                               ELSE IF StartsWith(c, id \o GT) THEN getChannelState(states, c)
                               ELSE view.boxes[c]]])

\* the click handler of the solo button of channel id: every path off, the
\* path with its child paths on, its parent paths on; the boxes follow the map
SoloChannel(id) ==
  /\ view.hasData /\ id \in DOMAIN view.boxes
  /\ LET off == [path \in DOMAIN view.channelStates |-> FALSE]
         own == setChannelState(off, view.channelColors, id, TRUE)
         states == [path \in DOMAIN own \cup ParentPaths(id) |->
                      IF path \in ParentPaths(id) THEN TRUE ELSE own[path]]
     IN  Apply([view EXCEPT
                  !.channelStates = states,
                  !.boxes = [c \in DOMAIN view.boxes |-> getChannelState(states, c)]])

\* the change handler of rootEye: every path of the map and every box
ToggleRoot ==
  /\ view.hasData
  /\ LET rootVisible == ~view.rootEye
     IN  Apply([view EXCEPT
                  !.rootEye = rootVisible,
                  !.channelStates = [path \in DOMAIN view.channelStates |-> rootVisible],
                  !.boxes = [c \in DOMAIN view.boxes |-> rootVisible]])

\* the timer of the channelFilter input: rerenderChannels with the text q
RerenderChannels(q) ==
  /\ view.hasData
  /\ view' = [view EXCEPT
                !.channelFilter = q,
                !.boxes = renderTree(filterTree(view.channelsData, q), view.channelStates)]
  /\ UNCHANGED <<navigation, inflight, editor, disk, workspaceFolder, combinedPath,
                 originalCombinedContent, derived, combinedFile, posted, pendingCounts,
                 payload, allowedMessageIndices, prevFile>>

\* the change handler of the box of session k
ToggleSession(k) ==
  /\ view.hasData /\ k \in view.rows
  /\ Apply([view EXCEPT !.sessions = IF k \in @ THEN @ \ {k} ELSE @ \cup {k}])

\* logs for the page: channel paths of three depths and a root channel of its
\* own, with no banner, with a banner first, with a message before the banner
PageLogs ==
  {<<HdrAB, HdrABC, HdrBlank>>,
   <<Banner, HdrAB, HdrABC, HdrBlank, HdrB1>>,
   <<HdrAB, Banner, HdrAErr>>}

PageDisks == {FolderDisk(Join(ls, <<LF>>)) : ls \in PageLogs}

\* texts typed into the channel filter
PageSearches == {<<>>, <<"C">>}

InitPage == disk \in PageDisks /\ Constructed

NextPage ==
  \/ HandleOpenFolder
  \/ \E id \in DOMAIN view.boxes : ToggleChannel(id)
  \/ \E id \in DOMAIN view.boxes : SoloChannel(id)
  \/ ToggleRoot
  \/ \E q \in PageSearches : RerenderChannels(q)
  \/ \E k \in view.rows : ToggleSession(k)

SpecPage == InitPage /\ [][NextPage]_vars

\* ------------------------------------------------------------------------
\* Definitions shared by the properties
\* ------------------------------------------------------------------------
Combined == combinedPath # None
Filtered == payload # <<>>

OriginalLines == SplitLines(originalCombinedContent)

IsDelimiterLine(line) == startRegex(line) \/ partRegex(line)
IsHeaderLine(line) == headPrefixRegex(line) /\ ~IsDelimiterLine(line)

\* the positions of the header lines of the original, and the message that
\* owns position j: the number of header lines up to j, less one (-1: none)
HeaderPositions(lines) == {j \in 1..Len(lines) : IsHeaderLine(lines[j])}
OwnerOfLine(lines, j) == Cardinality({h \in HeaderPositions(lines) : h <= j}) - 1
HeaderLineOf(lines, i) ==
  CHOOSE h \in HeaderPositions(lines) : OwnerOfLine(lines, h) = i

\* the lines of s at the positions of K, in order
RECURSIVE LinesAt(_, _, _)
LinesAt(lines, K, j) ==
  IF j > Len(lines) THEN <<>>
  ELSE (IF j \in K THEN <<lines[j]>> ELSE <<>>) \o LinesAt(lines, K, j + 1)

AllIndices == {parsed[k].index : k \in 1..Len(parsed)}

\* line endings normalised to \n
NormalizeEol(s) == Join(SplitLines(s), <<LF>>)

\* ------------------------------------------------------------------------
\* C1: regenerating with every message index allowed gives back the original
\* combined content, up to line endings: no line is lost, added or reordered.
\* The code drops every line that precedes the first header line and is no
\* delimiter, the empty first line of every combined content included.
\* ------------------------------------------------------------------------
C1_RegenerateAllIsIdentity ==
  (Filtered /\ allowedMessageIndices = AllIndices)
    => NormalizeEol(combinedFile) = NormalizeEol(originalCombinedContent)

\* ------------------------------------------------------------------------
\* C2: channel dominance. A message with at least one channel of which some
\* prefix path channels[0..k] joined by '>' is absent from query.channels is
\* not in the filter result, whatever deeper paths the query holds.
\* ------------------------------------------------------------------------
C2_ChannelDominance ==
  Filtered =>
    \A k \in 1..Len(parsed) :
      (\E j \in 1..Len(parsed[k].channels) :
         Join(SubSeq(parsed[k].channels, 1, j), <<">">>) \notin payload[1].channels)
        => parsed[k].index \notin allowedMessageIndices

\* a message of path A>B is left out by a query that holds A>B but not A
C2_Witness ==
  /\ Filtered
  /\ PathAB \in payload[1].channels /\ PathA \notin payload[1].channels
  /\ \E k \in 1..Len(parsed) :
       /\ parsed[k].channels = <<<<"A">>, <<"B">>>>
       /\ parsed[k].index \notin allowedMessageIndices
  /\ allowedMessageIndices # {}

\* ------------------------------------------------------------------------
\* C3: filtering is history-independent. Whatever applyFilters calls came
\* since the combine, the allowed set and the file text of the last one are
\* those of the same query applied first after the combine: the filter of the
\* parse of the combined text of the disk, regenerated from that text.
\* ------------------------------------------------------------------------
FirstAfterCombine(q) ==
  LET c == CombinedOf(disk)
      p == parseCombined(c)
      a == filterMessages(p.parsed, p.sessions, q)
  IN  [allowed |-> a, text |-> generateCombinedLog(c, a)]

C3_HistoryIndependent ==
  Filtered =>
    /\ allowedMessageIndices = FirstAfterCombine(payload[1]).allowed
    /\ combinedFile = FirstAfterCombine(payload[1]).text

\* a filter that brings back lines the filter before it had left out
C3_Witness ==
  /\ Filtered
  /\ prevFile # NoFile
  /\ Len(combinedFile) > Len(prevFile)
  /\ allowedMessageIndices # {}

\* ------------------------------------------------------------------------
\* C4: for every allowed set A and parsed message i: with i in A the header
\* line of i and every line up to the next header line are in the output,
\* unchanged and in the original order; with i not in A none of them is,
\* except session banners and part delimiters. Stated by position: message i
\* is the one parsed from the (i+1)-th header line, and the output is the
\* original lines, in order, that are delimiters or owned by a message of A.
\* ------------------------------------------------------------------------
KeptPositions(lines, A) ==
  {j \in 1..Len(lines) : IsDelimiterLine(lines[j]) \/ OwnerOfLine(lines, j) \in A}

C4_IncludedBlocksVerbatim ==
  Filtered =>
    LET lines == OriginalLines
    IN  /\ Len(parsed) = Cardinality(HeaderPositions(lines))
        /\ \A k \in 1..Len(parsed) :
             /\ parsed[k].index = k - 1
             /\ parsed[k].timestamp = HeadTimestamp(lines[HeaderLineOf(lines, k - 1)])
        /\ combinedFile =
             Join(LinesAt(lines, KeptPositions(lines, allowedMessageIndices), 1), <<LF>>)

\* an allowed message with a continuation line, before a message left out
\* that has a line of its own
C4_Witness ==
  /\ Filtered
  /\ LET lines == OriginalLines
     IN  \E a, b \in 1..Len(lines) :
           /\ a < b
           /\ ~IsHeaderLine(lines[a]) /\ ~IsDelimiterLine(lines[a])
           /\ OwnerOfLine(lines, a) \in allowedMessageIndices
           /\ ~IsHeaderLine(lines[b]) /\ ~IsDelimiterLine(lines[b])
           /\ OwnerOfLine(lines, b) \in AllIndices \ allowedMessageIndices

\* ------------------------------------------------------------------------
\* C5: level predicate. A message whose level is one of D, I, W, E, '!', 'T',
\* 'F' or blank (' ') is in the filter result only if that level is in
\* query.levels. The code knows '!', E, W, I, D and the empty string: a blank
\* level is the string ' ', and it, T and F are never filtered.
\* ------------------------------------------------------------------------
RecognizedLevels == {"D", "I", "W", "E", "!", "T", "F", " "}

C5_RecognizedLevelsFiltered ==
  Filtered =>
    \A k \in 1..Len(parsed) :
      (parsed[k].level \in RecognizedLevels
         /\ parsed[k].index \in allowedMessageIndices)
        => <<parsed[k].level>> \in payload[1].levels

\* ------------------------------------------------------------------------
\* C6: a message without channels passes the channel predicate iff the
\* NO_CHANNEL sentinel is in query.channels, whatever real paths the query
\* holds: it is in the result iff the sentinel is there and the level,
\* session and text predicates pass.
\* ------------------------------------------------------------------------
C6_NoChannelSentinel ==
  Filtered =>
    \A k \in 1..Len(parsed) :
      parsed[k].channels = <<>> =>
        (parsed[k].index \in allowedMessageIndices
           <=> /\ NO_CHANNEL \in payload[1].channels
               /\ LevelPasses(parsed[k], payload[1])
               /\ SessionPasses(parsed[k], sessions, payload[1])
               /\ TextPasses(parsed[k], payload[1]))

\* a message without channels is in the result of a query that holds the
\* sentinel alone, and a message with channels is not
C6_Witness ==
  /\ Filtered
  /\ payload[1].channels = {NO_CHANNEL}
  /\ \E k \in 1..Len(parsed) :
       parsed[k].channels = <<>> /\ parsed[k].index \in allowedMessageIndices
  /\ \E k \in 1..Len(parsed) :
       parsed[k].channels # <<>> /\ parsed[k].index \notin allowedMessageIndices

\* ------------------------------------------------------------------------
\* C7: session predicate. A message is in the result only if its owning
\* session is in query.sessions; the owner is the session of the greatest
\* startOffset <= message.index (the last of them in banner order), and the
\* implicit session 0 for a message before the first banner.
\* ------------------------------------------------------------------------
OwningSession(idx) ==
  LET below == {k \in 1..Len(sessions) : sessions[k].startOffset <= idx}
      top == {k \in below : \A j \in below : sessions[j].startOffset <= sessions[k].startOffset}
  IN  IF below = {} THEN 0 ELSE sessions[Max(top)].index

C7_SessionPredicate ==
  Filtered =>
    \A k \in 1..Len(parsed) :
      parsed[k].index \in allowedMessageIndices
        => OwningSession(parsed[k].index) \in payload[1].sessions

\* a message before the first banner is left out and a message of session 1
\* is kept by a query whose sessions are {1}
C7_Witness ==
  /\ Filtered
  /\ payload[1].sessions = {1}
  /\ \E k \in 1..Len(parsed) :
       OwningSession(parsed[k].index) = 0 /\ parsed[k].index \notin allowedMessageIndices
  /\ \E k \in 1..Len(parsed) :
       OwningSession(parsed[k].index) = 1 /\ parsed[k].index \in allowedMessageIndices

\* ------------------------------------------------------------------------
\* C8: text predicate. With a non-empty query.text a message passes iff the
\* text, compared without regard to case, is a substring of the message body
\* or of its '>'-joined channel path; with an empty text every message does.
\* ------------------------------------------------------------------------
CasePairs ==
  {<<"A", "a">>, <<"B", "b">>, <<"E", "e">>, <<"R", "r">>, <<"X", "x">>, <<"T", "t">>,
   <<"P", "p">>, <<"S", "s">>, <<"D", "d">>, <<"I", "i">>, <<"W", "w">>, <<"F", "f">>,
   <<"N", "n">>, <<"G", "g">>, <<"M", "m">>, <<"C", "c">>, <<"Q", "q">>, <<"H", "h">>,
   <<"L", "l">>, <<"O", "o">>}

SameLetter(a, b) == a = b \/ <<a, b>> \in CasePairs \/ <<b, a>> \in CasePairs

FoundIgnoringCase(t, s) ==
  \E i \in 0..(Len(s) - Len(t)) : \A k \in 1..Len(t) : SameLetter(s[i + k], t[k])

TextMatches(msg, t) ==
  t = <<>> \/ FoundIgnoringCase(t, msg.text)
           \/ FoundIgnoringCase(t, Join(msg.channels, <<">">>))

C8_TextPredicate ==
  Filtered =>
    \A k \in 1..Len(parsed) :
      parsed[k].index \in allowedMessageIndices
        <=> /\ TextMatches(parsed[k], payload[1].text)
            /\ LevelPasses(parsed[k], payload[1])
            /\ ChannelPasses(parsed[k], payload[1])
            /\ SessionPasses(parsed[k], sessions, payload[1])

\* the text ERR keeps a message whose body holds Err, and leaves out another
C8_Witness ==
  /\ Filtered
  /\ payload[1].text = <<"E", "R", "R">>
  /\ \E k \in 1..Len(parsed) :
       /\ Contains(parsed[k].text, <<"E", "r", "r">>)
       /\ parsed[k].index \in allowedMessageIndices
  /\ \E k \in 1..Len(parsed) : parsed[k].index \notin allowedMessageIndices

\* ------------------------------------------------------------------------
\* C9: the parser puts no part-delimiter line and no session-banner line
\* into a message. The code tests the banner only: a BEGIN PART or END PART
\* line met while a message is open is appended to its text.
\* ------------------------------------------------------------------------
C9_NoDelimiterInMessages ==
  Combined =>
    \A k \in 1..Len(parsed) :
      LET tl == SplitLines(parsed[k].text)
      IN  \A j \in 1..Len(tl) : ~IsDelimiterLine(tl[j])

\* ------------------------------------------------------------------------
\* C10: a header line followed by k >= 0 non-header lines yields one message
\* whose text is the head text of the header followed, for each continuation
\* line in order, by a newline and that line. As claimed, for every head text
\* and every continuation line:
\* ------------------------------------------------------------------------
\* the message the parser makes of a header line alone
HeaderAlone(line) == HeaderStep(ParseStart, line).current[1]

\* the continuation lines of message i: the lines after its header line, up
\* to the next header line, that are no session banner
ContinuationLines(lines, i) ==
  LinesAt(lines, {j \in 1..Len(lines) :
                    /\ OwnerOfLine(lines, j) = i
                    /\ ~IsHeaderLine(lines[j])
                    /\ ~startRegex(lines[j])}, 1)

RECURSIVE AppendWithNewlines(_, _)
AppendWithNewlines(text, ls) ==
  IF ls = <<>> THEN text ELSE AppendWithNewlines(text \o <<LF>> \o Head(ls), Tail(ls))

C10_ContinuationAlwaysNewline ==
  Combined =>
    LET lines == OriginalLines
    IN  \A k \in 1..Len(parsed) :
          parsed[k].text =
            AppendWithNewlines(HeaderAlone(lines[HeaderLineOf(lines, k - 1)]).text,
                               ContinuationLines(lines, k - 1))

\* As amended: the newline is there only when the text gathered so far is not
\* empty. One message for each header line, with the level and channels of
\* the header; '[A][B] hello' then 'world' gives I, [A, B], 'hello\nworld'.
RECURSIVE AppendSeparated(_, _)
AppendSeparated(text, ls) ==
  IF ls = <<>> THEN text
  ELSE AppendSeparated(text \o (IF text = <<>> THEN <<>> ELSE <<LF>>) \o Head(ls), Tail(ls))

HelloWorldExample ==
  parseCombined(HdrAB \o <<LF>> \o World).parsed =
    <<[index |-> 0, timestamp |-> SubSeq(Ts("1"), 2, 19), level |-> "I",
       channels |-> <<<<"A">>, <<"B">>>>,
       text |-> <<"h", "e", "l", "l", "o", LF, "w", "o", "r", "l", "d">>]>>

C10_ContinuationSeparated ==
  /\ ~Combined => HelloWorldExample
  /\ Combined =>
       LET lines == OriginalLines
       IN  /\ Len(parsed) = Cardinality(HeaderPositions(lines))
           /\ \A k \in 1..Len(parsed) :
                LET h == HeaderAlone(lines[HeaderLineOf(lines, k - 1)])
                IN  /\ parsed[k].level = h.level
                    /\ parsed[k].channels = h.channels
                    /\ parsed[k].text =
                         AppendSeparated(h.text, ContinuationLines(lines, k - 1))

\* a header without head text whose first continuation line became the text,
\* and a header with head text followed by an empty line
C10_Witness ==
  /\ Combined
  /\ LET lines == OriginalLines
     IN  /\ \E k \in 1..Len(parsed) :
               /\ HeaderAlone(lines[HeaderLineOf(lines, k - 1)]).text = <<>>
               /\ parsed[k].text # <<>>
         /\ \E k \in 1..Len(parsed) :
               /\ HeaderAlone(lines[HeaderLineOf(lines, k - 1)]).text # <<>>
               /\ Includes(ContinuationLines(lines, k - 1), <<>>)

\* ------------------------------------------------------------------------
\* C11: channel-token parsing degrades gracefully. For every header line,
\* after an optional (WorkingQueue:<digits>) tag, the channels of the message
\* are the maximal leading run of bracket tokens that are not empty and hold
\* no whitespace and no quote; the first token that fails, or a remainder
\* that does not start with '[', ends the channels; the message is produced
\* all the same, and its head text is what is left, trimmed on the left.
\* ------------------------------------------------------------------------
\* what follows the header prefix and the optional tag
AfterPrefixAndTag(line) ==
  LET r == TrimStart(SliceFrom(line, HeadLength))
      n == WorkingQueueMatchLen(r)
  IN  IF n > 0 THEN SliceFrom(r, n) ELSE r

ValidToken(c) ==
  c # <<>> /\ \A i \in 1..Len(c) : ~IsSpace(c[i]) /\ ~IsQuote(c[i]) /\ c[i] # "]"

StartsWithValidToken(t) ==
  /\ StartsWith(t, <<"[">>)
  /\ \E e \in 2..Len(t) : t[e] = "]" /\ ValidToken(SubSeq(t, 2, e - 1))

\* r is the tokens of cs in brackets, each after optional whitespace, then
\* optional whitespace and t
RECURSIVE Consumes(_, _, _)
Consumes(r, cs, t) ==
  IF cs = <<>> THEN TrimStart(r) = t
  ELSE LET tok == <<"[">> \o Head(cs) \o <<"]">>
       IN  /\ StartsWith(TrimStart(r), tok)
           /\ Consumes(SliceFrom(TrimStart(r), Len(tok)), Tail(cs), t)

Suffixes(r) == {SliceFrom(r, j) : j \in 0..Len(r)}

C11_ChannelTokens ==
  Combined =>
    LET lines == OriginalLines
    IN  /\ Len(parsed) = Cardinality(HeaderPositions(lines))
        /\ \A k \in 1..Len(parsed) :
             LET r == AfterPrefixAndTag(lines[HeaderLineOf(lines, k - 1)])
                 cs == parsed[k].channels
             IN  /\ \A i \in 1..Len(cs) : ValidToken(cs[i])
                 /\ \E t \in Suffixes(r) :
                      /\ Consumes(r, cs, t)
                      /\ ~StartsWithValidToken(t)
                      /\ parsed[k].text =
                           AppendSeparated(t, ContinuationLines(lines, k - 1))

\* a tag, a channel, then a token with a space in it: the channel is kept and
\* the token opens the text; and a header whose first token has quotes
C11_Witness ==
  /\ Combined
  /\ \E k \in 1..Len(parsed) :
       /\ parsed[k].channels = <<<<"A">>>>
       /\ StartsWith(parsed[k].text, <<"[", "B", " ", "C", "]">>)
  /\ \E k \in 1..Len(parsed) :
       /\ parsed[k].channels = <<>>
       /\ StartsWith(parsed[k].text, <<"[", "'", "A", "'", "]">>)

\* ------------------------------------------------------------------------
\* C12: after parsing, the firstMessageTimestamp of every session is the
\* timestamp of the first message whose index is >= the startOffset of the
\* session, and null exactly when there is no such message. As claimed:
\* ------------------------------------------------------------------------
FirstTimestampOf(K) ==
  IF K = {} THEN None ELSE parsed[Min(K)].timestamp

C12_FirstTimestampByOffset ==
  Combined =>
    \A j \in 1..Len(sessions) :
      sessions[j].firstMessageTimestamp =
        FirstTimestampOf({k \in 1..Len(parsed) :
                            parsed[k].index >= sessions[j].startOffset})

\* As amended: the first message the session owns, that is whose index is
\* >= its startOffset and below the startOffset of the next session; null
\* exactly when it owns none, as after a banner followed by a banner.
C12_FirstTimestampOfOwned ==
  Combined =>
    \A j \in 1..Len(sessions) :
      sessions[j].firstMessageTimestamp =
        FirstTimestampOf({k \in 1..Len(parsed) :
                            /\ parsed[k].index >= sessions[j].startOffset
                            /\ j < Len(sessions)
                                 => parsed[k].index < sessions[j + 1].startOffset})

\* a session without messages, its banner followed by the banner of a
\* session that has one
C12_Witness ==
  /\ Combined
  /\ \E j \in 1..(Len(sessions) - 1) :
       /\ sessions[j].firstMessageTimestamp = None
       /\ sessions[j + 1].firstMessageTimestamp # None
       /\ sessions[j + 1].startOffset < Len(parsed)

\* ------------------------------------------------------------------------
\* C13: for every session banner, buildVersion is the captured value of the
\* first line matching /Build version:\s*(.+)/ after the banner and before the
\* next banner (or the end), null when there is none; a Build version line
\* after the next banner is never attributed to the earlier session.
\* As claimed, the value being the capture group itself:
\* ------------------------------------------------------------------------
BannerPositions(lines) == {j \in 1..Len(lines) : startRegex(lines[j])}

\* the position of the j-th banner, and of the banner after it (or the end)
BannerAt(lines, j) ==
  CHOOSE b \in BannerPositions(lines) :
    Cardinality({x \in BannerPositions(lines) : x <= b}) = j

NextBannerAfter(lines, b) ==
  Min({x \in BannerPositions(lines) : x > b} \cup {Len(lines) + 1})

BuildLinesOf(lines, j) ==
  {i \in (BannerAt(lines, j) + 1)..(NextBannerAfter(lines, BannerAt(lines, j)) - 1) :
     BuildMatch(lines[i]) # None}

C13_BuildVersionIsCapture ==
  Combined =>
    LET lines == OriginalLines
    IN  /\ Len(sessions) = Cardinality(BannerPositions(lines))
        /\ \A j \in 1..Len(sessions) :
             sessions[j].buildVersion =
               IF BuildLinesOf(lines, j) = {} THEN None
               ELSE BuildMatch(lines[Min(BuildLinesOf(lines, j))])

\* As amended: the capture group with the whitespace around it removed.
C13_BuildVersionIsTrimmedCapture ==
  Combined =>
    LET lines == OriginalLines
    IN  /\ Len(sessions) = Cardinality(BannerPositions(lines))
        /\ \A j \in 1..Len(sessions) :
             sessions[j].buildVersion =
               IF BuildLinesOf(lines, j) = {} THEN None
               ELSE Trim(BuildMatch(lines[Min(BuildLinesOf(lines, j))]))

\* a session without a version whose next session has a Build version line
\* with whitespace around the value
C13_Witness ==
  /\ Combined
  /\ \E j \in 1..(Len(sessions) - 1) :
       /\ sessions[j].buildVersion = None
       /\ sessions[j + 1].buildVersion = <<"1", ".", "3">>

\* ------------------------------------------------------------------------
\* C14: every message whose channels hold both GameStateManager and
\* GameStateChanged and whose text is 'From <a> to <b>' yields exactly one
\* StateTransition {messageIndex, timestamp, from, to}, attached to the
\* session that owns the message index and to no other. The code looks the
\* owner up among the session records: a message before the first banner is
\* owned by the implicit session 0, which has no record, and yields nothing.
\* ------------------------------------------------------------------------
AllSpace(text, lo, hi) == \A x \in lo..hi : IsSpace(text[x])
AllDot(text, lo, hi) == \A x \in lo..hi : IsDot(text[x])

\* text is From, whitespace, from, whitespace, to, whitespace, to-group;
\* None stands for any group
Fits(piece, want) == want = None \/ piece = want

IsFromTo(text, from, to) ==
  LET n == Len(text)
  IN  /\ StartsWith(text, FromText)
      /\ \E i \in 6..n :
           /\ AllSpace(text, 5, i - 1)
           /\ \E j \in i..n :
                /\ AllDot(text, i, j)
                /\ Fits(SubSeq(text, i, j), from)
                /\ \E q \in (j + 2)..(n - 1) :
                     /\ AllSpace(text, j + 1, q - 1)
                     /\ SubSeq(text, q, q + 1) = ToText
                     /\ \E y \in (q + 3)..n :
                          /\ AllSpace(text, q + 2, y - 1)
                          /\ AllDot(text, y, n)
                          /\ Fits(SubSeq(text, y, n), to)

IsStateChange(msg) ==
  /\ \E i \in 1..Len(msg.channels) : msg.channels[i] = GameStateManager
  /\ \E i \in 1..Len(msg.channels) : msg.channels[i] = GameStateChanged
  /\ IsFromTo(msg.text, None, None)

\* where the transitions of message idx are: <<session, position>>
TransitionsOf(idx) ==
  {jx \in (1..Len(sessions)) \X (1..Len(parsed)) :
     /\ jx[2] <= Len(sessions[jx[1]].transitions)
     /\ sessions[jx[1]].transitions[jx[2]].messageIndex = idx}

C14_EveryStateChangeRecorded ==
  Combined =>
    \A k \in 1..Len(parsed) :
      IsStateChange(parsed[k]) =>
        /\ Cardinality(TransitionsOf(parsed[k].index)) = 1
        /\ \A jx \in TransitionsOf(parsed[k].index) :
             LET tr == sessions[jx[1]].transitions[jx[2]]
             IN  /\ sessions[jx[1]].index = OwningSession(parsed[k].index)
                 /\ tr.timestamp = parsed[k].timestamp
                 /\ IsFromTo(parsed[k].text, tr.from, tr.to)
                 /\ parsed[k].text = <<"F", "r", "o", "m", " ", "M", "e", "n", "u", " ", "t", "o", " ", "G", "a", "m", "e", "p", "l", "a", "y">>
                      => tr.from = <<"M", "e", "n", "u">>
                         /\ tr.to = <<"G", "a", "m", "e", "p", "l", "a", "y">>

\* ------------------------------------------------------------------------
\* C15: a corrupt or unreadable history archive never aborts the combine: in
\* both modes the failing part is skipped and the combined content holds
\* every readable part, in order. The zip mode reads each nested archive
\* inside try/catch; the folder mode does not, and there the exception of
\* one archive ends combineLogs before anything is retained.
\* ------------------------------------------------------------------------
CombineRequested == workspaceFolder # None

ReadableParts(d) ==
  HistoryParts(SortHistory(d.history)) \o CurrentPart(d)

C15_CorruptArchiveSkipped ==
  (CombineRequested /\ disk.writable) =>
    /\ Combined
    /\ originalCombinedContent = Join(ReadableParts(disk), <<LF>>)

\* ------------------------------------------------------------------------
\* C16: missing input is no failure. Without a current log the combine
\* completes with the history parts only; with neither a current log nor a
\* history archive it completes with empty combined content, no message, no
\* session and an empty channel index. In the folder mode an archive that
\* throws (C15) ends the combine here too.
\* ------------------------------------------------------------------------
C16_MissingInputTolerated ==
  (CombineRequested /\ disk.writable /\ disk.log = NoFile) =>
    /\ Combined
    /\ originalCombinedContent = Join(HistoryParts(SortHistory(disk.history)), <<LF>>)
    /\ disk.history = <<>> =>
         /\ originalCombinedContent = <<>>
         /\ parsed = <<>>
         /\ sessions = <<>>
         /\ channelsTree = EmptyMap

\* ------------------------------------------------------------------------
\* C17: part ordering, the same in both modes. The history parts come in
\* strictly descending order of their numeric suffix, compared as numbers
\* (history10 before history9); the current log comes last under the label
\* log.txt; each part is wrapped in its BEGIN PART and END PART lines, which
\* carry the same label; the parts are joined with a newline.
\* ------------------------------------------------------------------------
\* the number between 'log.history' and '.txt.zip'
SuffixNumber(name) == NumberOf(SubSeq(name, Len(LogHistoryText) + 1, Len(name) - Len(TxtZipText)))

ExpectedPart(label, content) ==
  <<LF>> \o <<"=", "=", "=", "=", "=", " ", "B", "E", "G", "I", "N", " ", "P", "A", "R", "T", ":", " ">> \o label \o <<" ", "=", "=", "=", "=", "=">> \o <<LF>>
         \o content \o <<LF>>
         \o <<"=", "=", "=", "=", "=", " ", "E", "N", "D", " ", "P", "A", "R", "T", ":", " ">> \o label \o <<" ", "=", "=", "=", "=", "=">> \o <<LF>>

\* the orders of the readable archives that descend strictly by number
DescendingOrders(d) ==
  LET ok == {i \in 1..Len(d.history) : d.history[i].state = "ok"}
  IN  {f \in [1..Cardinality(ok) -> ok] :
         \A a, b \in 1..Cardinality(ok) :
           a < b => SuffixNumber(d.history[f[a]].name) > SuffixNumber(d.history[f[b]].name)}

ExpectedContent(d, f) ==
  Join([i \in 1..Len(f) |->
          ExpectedPart(d.history[f[i]].name \o <<":", ":", "l", "o", "g", ".", "t", "x", "t">>, d.history[f[i]].content)]
       \o (IF d.log = NoFile THEN <<>> ELSE <<ExpectedPart(<<"l", "o", "g", ".", "t", "x", "t">>, d.log)>>),
       <<LF>>)

C18_DerivedIsParseOfOriginal ==
  LET p == parseCombined(originalCombinedContent)
  IN  /\ parsed = p.parsed
      /\ sessions = p.sessions
      /\ channelsTree = p.channelsTree

\* ------------------------------------------------------------------------
\* C19: combine and filter requests on one provider are serialized: from the
\* start of an applyFilters or handleOpenFolder request until it finishes
\* (its file write, document reload and count post included) no step of
\* another such request is executed. A step of the request at position i
\* leaves every other suspended request where it was, so two requests in
\* flight at once is what serialization excludes. The handlers are started
\* on every message and take no lock.
\* ------------------------------------------------------------------------
C19_RequestsSerialized == Len(inflight) <= 1

\* ------------------------------------------------------------------------
\* C20: the level counts that come with a filter result are, for each
\* recognized level code, the blank level included, the number of messages of
\* the unfiltered parsed set that have that level; they are the same for
\* every query and equal the counts posted right after the combine. The
\* counter of the blank level has the key '' while a blank level is parsed as
\* ' ': it stays at zero whatever the log holds.
\* ------------------------------------------------------------------------
MessagesOfLevel(c) == Cardinality({k \in 1..Len(parsed) : parsed[k].level = c})

\* the key of the counter of a level code: the code itself, '' for the blank
CounterKey(c) == IF c = " " THEN <<>> ELSE <<c>>

C20_LevelCountsOfUnfiltered ==
  Filtered =>
    \A c \in {"!", "E", "W", "I", "D", " "} :
      posted[1].levelCounts[CounterKey(c)] = MessagesOfLevel(c)

\* ------------------------------------------------------------------------
\* C21: the combined file is never opened in the editor automatically while
\* its size is beyond the limit of 50 MB: after a combine and after the reload
\* of every applyFilters, a file beyond the limit is shown only when the user
\* has confirmed it. openCombined tests the size; reloadAndDecorate, which
\* applyFilters awaits, opens the file it has just written without a test.
\* ------------------------------------------------------------------------
C21_NoAutomaticOversizeDisplay ==
  \A i \in 1..Len(editor.shown) :
    editor.shown[i].by = "auto" => editor.shown[i].bytes <= SizeLimitMB * BytesPerMB

\* ------------------------------------------------------------------------
\* C22: session ownership is monotonic. For parsed messages m1, m2 with
\* m1.index < m2.index, getSessionByMessageIndex(m1.index) is at most
\* getSessionByMessageIndex(m2.index), on every input, banners that follow
\* each other with no message between them included.
\* ------------------------------------------------------------------------
C22_OwnershipMonotonic ==
  Combined =>
    \A a, b \in 1..Len(parsed) :
      parsed[a].index < parsed[b].index
        => getSessionByMessageIndex(sessions, parsed[a].index)
             <= getSessionByMessageIndex(sessions, parsed[b].index)

\* a message before two banners that follow each other and a message after
\* them: the first is of session 0, the second of session 2
C22_Witness ==
  /\ Combined
  /\ Len(sessions) = 2
  /\ sessions[1].startOffset = sessions[2].startOffset
  /\ \E a, b \in 1..Len(parsed) :
       /\ parsed[a].index < parsed[b].index
       /\ getSessionByMessageIndex(sessions, parsed[a].index) = 0
       /\ getSessionByMessageIndex(sessions, parsed[b].index) = 2

\* ------------------------------------------------------------------------
\* C23: index stability between the parser and the regenerator. On every
\* combined content the running counter of generateCombinedLog at a header
\* line is the index parseCombined gave to the message that line starts; the
\* regenerator counts as many header lines as there are parsed messages; a
\* banner line and a part-delimiter line advance neither counter.
\* ------------------------------------------------------------------------
\* the states of the two loops: element n + 1 is the state after n lines
RECURSIVE ParseTrace(_, _)
ParseTrace(lines, n) ==
  IF n = 0 THEN <<ParseStart>>
  ELSE LET t == ParseTrace(lines, n - 1)
       IN  Append(t, ParseLine(t[n], lines, n))

RECURSIVE GenTrace(_, _, _)
GenTrace(lines, n, allowed) ==
  IF n = 0 THEN <<GenStart>>
  ELSE LET t == GenTrace(lines, n - 1, allowed)
       IN  Append(t, GenLine(t[n], lines[n], allowed))

C23_IndexStability ==
  Filtered =>
    LET lines == OriginalLines
        gt == GenTrace(lines, Len(lines), allowedMessageIndices)
        pt == ParseTrace(lines, Len(lines))
    IN  /\ gt[Len(lines) + 1].currentMessageIndex + 1 = Len(parsed)
        /\ \A n \in 1..Len(lines) :
             LET g0 == gt[n]
                 g1 == gt[n + 1]
                 p0 == pt[n]
                 p1 == pt[n + 1]
             IN  /\ IsHeaderLine(lines[n]) =>
                      /\ g1.currentMessageIndex = g0.currentMessageIndex + 1
                      /\ p1.current # <<>>
                      /\ p1.current[1].index = g1.currentMessageIndex
                      /\ parsed[g1.currentMessageIndex + 1].index = g1.currentMessageIndex
                      /\ parsed[g1.currentMessageIndex + 1].timestamp = HeadTimestamp(lines[n])
                 /\ IsDelimiterLine(lines[n]) =>
                      /\ g1.currentMessageIndex = g0.currentMessageIndex
                      /\ p1.index = p0.index
                      /\ p1.current = p0.current \/ partRegex(lines[n])

\* a header line, a banner and a second header line between the lines of a
\* part, filtered so that one of the two messages is left out
C23_Witness ==
  /\ Filtered
  /\ Len(parsed) = 2
  /\ Len(sessions) = 1 /\ sessions[1].startOffset = 1
  /\ Cardinality(allowedMessageIndices) = 1

\* ------------------------------------------------------------------------
\* C24: after every parse parsed[i].index = i for every i (from 0, without
\* gaps, increasing in parse order); sessions[k].index = k + 1 in banner
\* order; the startOffset values of the sessions never decrease along the
\* list and each lies in 0..parsed.length. (Sequences start at 1 here.)
\* ------------------------------------------------------------------------
C24_IndicesContiguous ==
  Combined =>
    /\ \A i \in 1..Len(parsed) : parsed[i].index = i - 1
    /\ \A k \in 1..Len(sessions) :
         /\ sessions[k].index = k
         /\ sessions[k].startOffset \in 0..Len(parsed)
         /\ k > 1 => sessions[k - 1].startOffset <= sessions[k].startOffset
    /\ Len(sessions) = Cardinality(BannerPositions(OriginalLines))

\* three sessions, the second without a message: its banner is followed by
\* the banner of the third, after the first message and before the others
C24_Witness ==
  /\ Combined
  /\ Len(parsed) >= 2
  /\ Len(sessions) = 3
  /\ sessions[1].startOffset = 0
  /\ sessions[2].startOffset = sessions[3].startOffset
  /\ sessions[3].startOffset > 0

\* ------------------------------------------------------------------------
\* C25: after parsing, the channel index is exactly the relation built by
\* registering the channel list of every message: path P has child c iff some
\* message has channels with P = channels[0..k] joined by '>' and
\* c = channels[k+1] for a k in 0..n-2. Hence every proper prefix of every
\* message path is a key, child sets hold no element twice, and registering
\* the same messages again leaves the index as it is.
\* ------------------------------------------------------------------------
\* the pairs <<P, c>> of the claim; position j here is k + 1 there
ChannelSteps ==
  UNION {{<<m, j>> : j \in 1..(Len(parsed[m].channels) - 1)} : m \in 1..Len(parsed)}

PathOfStep(mj) == Join(SubSeq(parsed[mj[1]].channels, 1, mj[2]), <<">">>)
ChildOfStep(mj) == parsed[mj[1]].channels[mj[2] + 1]

\* the index after the channels of the messages from m on are registered
RECURSIVE RegisterAgain(_, _)
RegisterAgain(tree, m) ==
  IF m > Len(parsed) THEN tree
  ELSE RegisterAgain(RegisterChannels(tree, parsed[m].channels, 1), m + 1)

C25_ChannelIndexIsRelation ==
  Combined =>
    /\ DOMAIN channelsTree = {PathOfStep(mj) : mj \in ChannelSteps}
    /\ \A P \in DOMAIN channelsTree :
         channelsTree[P] = {ChildOfStep(mj) : mj \in {x \in ChannelSteps : PathOfStep(x) = P}}
    /\ \A m \in 1..Len(parsed) : \A j \in 1..(Len(parsed[m].channels) - 1) :
         Join(SubSeq(parsed[m].channels, 1, j), <<">">>) \in DOMAIN channelsTree
    /\ RegisterAgain(channelsTree, 1) = channelsTree

\* A has the children B and C, and A>B has the child C
C25_Witness ==
  /\ Combined
  /\ DOMAIN channelsTree = {<<"A">>, <<"A", ">", "B">>}
  /\ channelsTree[<<"A">>] = {<<"B">>, <<"C">>}
  /\ channelsTree[<<"A", ">", "B">>] = {<<"C">>}

\* ------------------------------------------------------------------------
\* C26: every root channel is in the channel index and in the exported
\* channel tree: for every message with at least one channel the path
\* channels[0] is a key of the index and a top-level node of
\* serializeChannelsTree(), also when the channel only ever stands alone.
\* The parser makes a key only of a path that has a child, and the export
\* walks the keys: a channel that always stands alone is in neither.
\* ------------------------------------------------------------------------
C26_RootChannelsExported ==
  Combined =>
    \A m \in 1..Len(parsed) :
      Len(parsed[m].channels) >= 1 =>
        /\ parsed[m].channels[1] \in DOMAIN channelsTree
        /\ <<parsed[m].channels[1]>> \in serializeChannelsTree(parsed, channelsTree)

\* ------------------------------------------------------------------------
\* C27: applyFilters changes the combined file on disk and the posted result
\* only: the retained original content, the parsed messages, the sessions
\* with their transitions and the channel index are the same after every
\* applyFilters call, and the retained original is assigned by a combine
\* only. A step that ends with a payload is a step since the last combine;
\* a step that changes the original is a combine, which leaves no payload
\* and retains the combined content of the disk.
\* ------------------------------------------------------------------------
C27_FiltersLeaveOriginal ==
  [][/\ payload' # <<>> =>
          /\ originalCombinedContent' = originalCombinedContent
          /\ parsed' = parsed
          /\ sessions' = sessions
          /\ channelsTree' = channelsTree
          /\ combinedPath' = combinedPath
     /\ originalCombinedContent' # originalCombinedContent =>
          /\ payload' = <<>>
          /\ originalCombinedContent' = CombinedOf(disk)]_vars

\* a filter has left every message out of the file of a log with a session
\* and a channel path: the messages, the session and the index are there
C27_Witness ==
  /\ Filtered
  /\ allowedMessageIndices = {}
  /\ combinedFile # originalCombinedContent
  /\ parsed # <<>> /\ sessions # <<>> /\ channelsTree # EmptyMap
  /\ parsed = parseCombined(originalCombinedContent).parsed

\* ------------------------------------------------------------------------
\* C28: for every allowed set, every session-banner line and every part
\* BEGIN/END line of the original is in the regenerated output, as it is
\* and in the order of the original; with the empty allowed set the output
\* is these delimiter lines and nothing else.
\* ------------------------------------------------------------------------
DelimiterLinesOf(text) ==
  LET lines == SplitLines(text)
  IN  LinesAt(lines, {j \in 1..Len(lines) : IsDelimiterLine(lines[j])}, 1)

C28_DelimitersAlwaysCopied ==
  Filtered =>
    /\ DelimiterLinesOf(combinedFile) = DelimiterLinesOf(originalCombinedContent)
    /\ allowedMessageIndices = {} =>
         combinedFile = Join(DelimiterLinesOf(originalCombinedContent), <<LF>>)

\* a log with a banner between two messages, filtered with the empty set:
\* the two part lines and the banner are what is left
C28_Witness ==
  /\ Filtered
  /\ allowedMessageIndices = {}
  /\ Len(parsed) >= 2
  /\ Len(DelimiterLinesOf(combinedFile)) = 3
  /\ \E j \in 2..(Len(OriginalLines) - 1) :
       /\ startRegex(OriginalLines[j])
       /\ OwnerOfLine(OriginalLines, j) >= 0
       /\ OwnerOfLine(OriginalLines, j) < Len(parsed) - 1

\* ------------------------------------------------------------------------
\* C29: in every session the transitions are in strictly increasing order of
\* messageIndex, the messageIndex of every transition is owned by that
\* session under the owner-lookup rule, and no messageIndex is in the
\* transitions of two sessions.
\* ------------------------------------------------------------------------
C29_TransitionsOrderedAndOwned ==
  Combined =>
    /\ \A j \in 1..Len(sessions) :
         LET trs == sessions[j].transitions
         IN  /\ \A a, b \in 1..Len(trs) :
                  a < b => trs[a].messageIndex < trs[b].messageIndex
             /\ \A a \in 1..Len(trs) :
                  /\ OwningSession(trs[a].messageIndex) = sessions[j].index
                  /\ trs[a].messageIndex \in AllIndices
    /\ \A i, j \in 1..Len(sessions) :
         i # j =>
           {sessions[i].transitions[a].messageIndex : a \in 1..Len(sessions[i].transitions)}
             \cap {sessions[j].transitions[a].messageIndex : a \in 1..Len(sessions[j].transitions)}
             = {}

\* two state changes in the first session and one in the second
C29_Witness ==
  /\ Combined
  /\ Len(sessions) = 2
  /\ Len(sessions[1].transitions) = 2
  /\ Len(sessions[2].transitions) = 1
  /\ sessions[1].transitions[2].messageIndex < sessions[2].transitions[1].messageIndex

\* ------------------------------------------------------------------------
\* C30: a session-banner line never becomes a message and never closes the
\* open message: it only appends one session record whose startOffset is the
\* number of header lines seen so far, and the non-header lines after it are
\* appended to the message that was open before the banner; a line that is
\* neither a header nor a banner and comes while no message is open is
\* dropped and changes no state. The state is the messages, the open
\* message, the sessions and the indexes; the counters of the sessions and
\* of the lines count what they count.
\* ------------------------------------------------------------------------
\* the parser without its two counters of sessions and lines
WithoutCounters(st) == [st EXCEPT !.sessionIndex = 0, !.currentLineInOriginal = 0]

HeadersBefore(lines, n) == Cardinality({h \in HeaderPositions(lines) : h < n})

C30_BannerKeepsOpenMessage ==
  (Combined /\ ~Filtered) =>
    LET lines == OriginalLines
        pt == ParseTrace(lines, Len(lines))
        last == pt[Len(lines) + 1]
    IN  /\ parsed = last.parsed \o last.current
        /\ Len(parsed) = Cardinality(HeaderPositions(lines))
        /\ \A n \in 1..Len(lines) :
             LET p0 == pt[n]
                 p1 == pt[n + 1]
             IN  /\ startRegex(lines[n]) =>
                      /\ WithoutCounters([p1 EXCEPT !.sessions = p0.sessions])
                           = WithoutCounters(p0)
                      /\ Len(p1.sessions) = Len(p0.sessions) + 1
                      /\ SubSeq(p1.sessions, 1, Len(p0.sessions)) = p0.sessions
                      /\ p1.sessions[Len(p1.sessions)].startOffset = HeadersBefore(lines, n)
                 /\ (~startRegex(lines[n]) /\ ~headPrefixRegex(lines[n])) =>
                      IF p0.current = <<>>
                      THEN WithoutCounters(p1) = WithoutCounters(p0)
                      ELSE /\ WithoutCounters([p1 EXCEPT !.current = p0.current])
                                = WithoutCounters(p0)
                           /\ p1.current =
                                <<[p0.current[1] EXCEPT
                                     !.text = @ \o (IF @ = <<>> THEN <<>> ELSE <<LF>>)
                                                \o lines[n]]>>

\* 'hello', a banner, 'world': one message whose text holds both lines, and
\* one session that starts after it
C30_Witness ==
  /\ Combined /\ ~Filtered
  /\ Len(sessions) = 1 /\ sessions[1].startOffset = 1
  /\ Len(parsed) = 1
  /\ StartsWith(parsed[1].text, <<"h", "e", "l", "l", "o", LF, "w", "o", "r", "l", "d">>)

\* ------------------------------------------------------------------------
\* C31: for a cursor on any line of the displayed combined file,
\* handleSelectionChange reports the session, and the latest transition of
\* that session at or before it, of the very message whose header is the
\* nearest header line at or above the cursor, also when messages share the
\* timestamp and when the file is a filtered subset of the original; without
\* a header at or above the cursor it reports null.
\* ------------------------------------------------------------------------
\* the messages whose blocks are in the displayed file
ShownIndices == IF Filtered THEN allowedMessageIndices ELSE AllIndices

NthSmallest(S, n) == CHOOSE x \in S : Cardinality({y \in S : y <= x}) = n

\* the header lines of the document are those of the shown messages, in the
\* order of their indices: the message of the header on line h (0-based)
MessageOfHeaderLine(h) ==
  NthSmallest(ShownIndices,
              Cardinality({i \in 0..h : IsHeaderLine(DocumentLines[i + 1])}))

\* the transitions of session sid at or before message idx
TransitionsUpTo(sid, idx) ==
  UNION {{sessions[k].transitions[n].messageIndex : n \in
            {n \in 1..Len(sessions[k].transitions) :
               sessions[k].transitions[n].messageIndex <= idx}} :
           k \in {k \in 1..Len(sessions) : sessions[k].index = sid}}

LocationOfMessage(idx) ==
  LET sid == OwningSession(idx)
      trs == TransitionsUpTo(sid, idx)
  IN  Location(sid, IF trs = {} THEN <<>> ELSE <<Max(trs)>>)

LocationOfCursor(pos) ==
  LET hs == {i \in 0..pos : IsHeaderLine(DocumentLines[i + 1])}
  IN  IF hs = {} THEN <<>> ELSE <<LocationOfMessage(MessageOfHeaderLine(Max(hs)))>>

C31_CursorFindsItsMessage ==
  (Combined /\ editor.shown # <<>>) =>
    \A pos \in 0..(Len(DocumentLines) - 1) :
      handleSelectionChange(pos) = LocationOfCursor(pos)

\* ------------------------------------------------------------------------
\* C32: whenever an applyFilters request finishes, the match count it posts
\* equals the number of message header lines of the combined file at that
\* moment, for every interleaving of requests whose awaits overlap.
\* ------------------------------------------------------------------------
HeaderCount(text) == Cardinality(HeaderPositions(SplitLines(text)))

C32_PostedCountIsOfTheFile ==
  [][\A i \in 1..Len(inflight) :
       FinishApplyFilters(i) => posted'[1].count = HeaderCount(combinedFile')]_vars

\* ------------------------------------------------------------------------
\* C33: with every level, channel and session box of the page checked and an
\* empty text filter, the query apply() builds makes filterMessages return
\* every message index, and the count posted for it is parsed.length, for
\* every input, also a log with messages before the first banner or with no
\* banner at all.
\* ------------------------------------------------------------------------
AllEnabled(v) ==
  /\ v.hasData
  /\ v.levels = knownLevels
  /\ \A path \in DOMAIN v.channelStates : v.channelStates[path]
  /\ \A id \in DOMAIN v.boxes : v.boxes[id]
  /\ v.sessions = v.rows
  /\ v.text = <<>>

\* the last applyFilters message is the one apply() builds from the page as it is
Applied == payload = <<ApplyPayload(view)>>

C33_AllEnabledShowsAll ==
  (AllEnabled(view) /\ Applied) =>
    /\ allowedMessageIndices = AllIndices
    /\ posted[1].count = Len(parsed)

\* ------------------------------------------------------------------------
\* C34: session filtering and banner positions. As claimed: for every query,
\* each non-delimiter line of the regenerated output lies, in the original,
\* between the banner of a session of query.sessions and the next banner (or
\* before the first banner when 0 is in query.sessions), and no line after
\* the banner of an unselected session is emitted. As the code has it: this
\* holds of the header line of every emitted line, the last header line at
\* or above it; a line that is no header follows its message into the output
\* also when a banner stands between the two.
\* ------------------------------------------------------------------------
\* the session whose banner is the last at or above position j, 0 before the
\* first banner: sessions are numbered from 1 in banner order
RegionOfLine(lines, j) == Cardinality({b \in BannerPositions(lines) : b <= j})

\* the positions of the original that are in the file, delimiters apart
EmittedPositions ==
  {j \in KeptPositions(OriginalLines, allowedMessageIndices) :
     ~IsDelimiterLine(OriginalLines[j])}

FileIsEmittedLines ==
  combinedFile =
    Join(LinesAt(OriginalLines, KeptPositions(OriginalLines, allowedMessageIndices), 1),
         <<LF>>)

C34_EmittedLinesInSelectedRegions ==
  Filtered =>
    /\ FileIsEmittedLines
    /\ \A j \in EmittedPositions : RegionOfLine(OriginalLines, j) \in payload[1].sessions

C34_EmittedHeadersInSelectedRegions ==
  Filtered =>
    /\ FileIsEmittedLines
    /\ \A j \in EmittedPositions :
         LET h == Max({x \in HeaderPositions(OriginalLines) : x <= j})
         IN  RegionOfLine(OriginalLines, h) \in payload[1].sessions

\* a message of a selected session is in the file with a line of it that
\* stands after the banner of a session that is not selected
C34_Witness ==
  /\ Filtered
  /\ \E j \in EmittedPositions :
       /\ ~IsHeaderLine(OriginalLines[j]) /\ OriginalLines[j] # <<>>
       /\ RegionOfLine(OriginalLines, j) \notin payload[1].sessions
       /\ RegionOfLine(OriginalLines, Max({x \in HeaderPositions(OriginalLines) : x <= j}))
            \in payload[1].sessions

\* ------------------------------------------------------------------------
\* C35: after the solo button of channel path X is used, from any state of
\* the toggles, the channel list apply() sends lets a message with channels
\* pass the channel test iff its path is X or has X as a prefix path;
\* messages without channels and messages whose path is a proper ancestor of
\* X do not pass.
\* ------------------------------------------------------------------------
AtOrBelow(msg, id) ==
  /\ Len(msg.channels) > 0
  /\ \/ PathStr(msg.channels) = id
     \/ StartsWith(PathStr(msg.channels), id \o GT)

C35_SoloShowsOnlyThatChannel ==
  [][\A id \in DOMAIN view.boxes :
       SoloChannel(id) =>
         \A k \in 1..Len(parsed) :
           ChannelPasses(parsed[k], payload'[1]) <=> AtOrBelow(parsed[k], id)]_vars

\* ------------------------------------------------------------------------
\* C36: channel paths identify channel lists. Two parsed messages with
\* different channel lists never have the same '>'-joined path, and no
\* message with channels has the path of the NO_CHANNEL sentinel, so a path
\* of a query or of the exported tree stands for one channel list.
\* ------------------------------------------------------------------------
C36_PathsIdentifyChannelLists ==
  Combined =>
    /\ \A i, j \in 1..Len(parsed) :
         PathStr(parsed[i].channels) = PathStr(parsed[j].channels)
           => parsed[i].channels = parsed[j].channels
    /\ \A i \in 1..Len(parsed) :
         Len(parsed[i].channels) > 0 => PathStr(parsed[i].channels) # NO_CHANNEL

\* ------------------------------------------------------------------------
\* C37: jumpToSession(k) reveals the header line of the first message of
\* session k and jumpToTransition(i) reveals the header line of message i,
\* whenever that message is in the displayed file, also when other messages
\* share its timestamp; the active location posted then names the session
\* that owns the revealed message.
\* ------------------------------------------------------------------------
\* the line (0-based) of the header of a shown message in the document: the
\* headers of the document are those of the shown messages, in index order
HeaderLineInDocument(idx) ==
  LET rank == Cardinality({y \in ShownIndices : y <= idx})
      hs == {h \in 0..(Len(DocumentLines) - 1) : IsHeaderLine(DocumentLines[h + 1])}
  IN  CHOOSE h \in hs : Cardinality({x \in hs : x <= h}) = rank

\* the first message of session k, <<>> for a session without messages
FirstMessageOf(k) ==
  LET own == {idx \in AllIndices : OwningSession(idx) = k}
  IN  IF own = {} THEN <<>> ELSE <<Min(own)>>

LandsOn(idx) ==
  /\ navigation'.revealed = <<HeaderLineInDocument(idx)>>
  /\ navigation'.sent
  /\ navigation'.payload # <<>>
  /\ navigation'.payload[1].sessionIndex = OwningSession(idx)

C37_JumpLandsOnItsMessage ==
  [][/\ \A k \in JumpSessions :
          (/\ RevealSession(k)
           /\ FirstMessageOf(k) # <<>>
           /\ FirstMessageOf(k)[1] \in ShownIndices) => LandsOn(FirstMessageOf(k)[1])
     /\ \A i \in JumpTransitions :
          (RevealTransition(i) /\ i \in ShownIndices) => LandsOn(i)]_vars

====
